---------------------------- MODULE Spec2Model ----------------------------
(***************************************************************************)
(* A model of shenron's session runtime: the server builder, the           *)
(* per-connection protocol adapter (ShenronHandler), the Session value,    *)
(* the middleware chain and the handler task that finalizes a session.     *)
(*                                                                         *)
(* Rust's Option<T> is a sequence of length at most one: None is <<>>,     *)
(* Some(x) is <<x>>.  A channel handle is identified by its channel id.    *)
(* The frames a Session hands to its channel are recorded, in issue order, *)
(* in the task's `wire`; the transport below the channel is not modelled.  *)
(***************************************************************************)
EXTENDS Integers, Sequences, FiniteSets, TLC

(***************************************************************************)
(* Bounds of the model.                                                    *)
(***************************************************************************)
MaxRequests == 6
MaxChannels == 2
MaxMiddleware == 2
MaxHandlerOps == 2
MaxMsgs == 3
MaxReads == 3
MaxKeys == 1
MaxConns == 2

(***************************************************************************)
(* Input domains.                                                          *)
(***************************************************************************)
Users == {"alice", "bob"}
EnvNames == {"LANG"}
EnvValues == {"C", "en"}
Terms == {"xterm"}
PtySizes == {[width |-> 80, height |-> 24, pixel_width |-> 0, pixel_height |-> 0],
             [width |-> 100, height |-> 40, pixel_width |-> 0, pixel_height |-> 0]}
SubsystemNames == {"sftp"}
BindAddr == "0.0.0.0:2222"
\* exec payloads: "ls", the invalid byte 0xFF, and "l" followed by a
\* two-byte sequence cut short (0xC3 without its continuation byte).
ExecData == {<<108, 115>>, <<255>>, <<108, 195>>}
ExitCodes == {0, 3}
Payloads == {<<97>>, <<98>>}
Signals == {"INT"}
WindowSizes == {[width |-> 100, height |-> 40, pixel_width |-> 0, pixel_height |-> 0],
                [width |-> 120, height |-> 30, pixel_width |-> 960, pixel_height |-> 480]}
ChannelIds == 1..MaxChannels

None == <<>>
Some(x) == <<x>>

VARIABLES
    \* Server (the builder)
    middleware,     \* Server.middleware: the middlewares added by with()
    app,            \* Server.app: Option of the assembled chain
    auth,           \* Server.auth / ShenronHandler.auth: which verifiers exist
    \* ShenronHandler (one accepted connection)
    channel,        \* Option<Channel>: the stored channel handle
    user,           \* Option<String>
    env,            \* HashMap<String, String>: name -> Option value
    pty,            \* Option<(String, PtySize)>
    \* the transport's side of the connection
    authed,         \* an authentication attempt was answered Auth::Accept
    opened,         \* number of session channels opened so far (ids 1..opened)
    last,           \* the last adapter call and what it returned
    nreq,           \* number of adapter calls so far
    serving,        \* serve() has taken the builder and runs the accept loop
    addr,           \* Server.addr: Option of the bind address
    keys,           \* Server.keys: the number of host keys in the list
    shutdown,       \* Server.shutdown: a shutdown future is set
    result,         \* Option: what serve() returned
    conns,          \* number of connections the accept loop has accepted
    \* spawned handler tasks, each owning its Session
    tasks,
    \* history (not program state)
    frozen,         \* ids of the with() calls the last app() call consumed
    nwith,          \* number of with() calls so far
    inflight,       \* the tasks that had not finished when serve() returned
    accepted,       \* Option: the attempt that was answered Accept
    rejected,       \* users of the attempts that were answered Reject
    envSince,       \* per channel id: env-requests received since it was opened
    ptySince,       \* per channel id: Option of the last pty-request naming it since it was opened
    promo,          \* per spawned task: the promoting request that created it
    sftp,           \* the SftpHandler of an sftp session: handles and next_handle
    sftpLog         \* what the SFTP peer has seen: last reply, handles issued and closed

sftpVars == <<sftp, sftpLog>>
builderVars == <<middleware, app, serving, frozen, nwith, addr, keys, shutdown,
                 result, conns, inflight, sftpVars>>
adapterVars == <<channel, user, env, pty>>
transportVars == <<authed, opened, last, nreq>>
historyVars == <<accepted, rejected, envSince, ptySince, promo>>
vars == <<middleware, app, auth, channel, user, env, pty, authed, opened, last,
          nreq, serving, tasks, frozen, nwith, accepted, rejected, envSince,
          ptySince, promo, addr, keys, shutdown, result, conns, inflight, sftp,
          sftpLog>>

(***************************************************************************)
(* AuthConfig                                                              *)
(***************************************************************************)
AuthConfigs == [password : BOOLEAN, pubkey : BOOLEAN]

IsEmptyAnyAbsent(a) == ~a.password \/ ~a.pubkey

IsEmpty(a) == ~a.password /\ ~a.pubkey

Methods(a) ==
    (IF a.password THEN {"Password"} ELSE {}) \cup
    (IF a.pubkey THEN {"PublicKey"} ELSE {})

(***************************************************************************)
(* Authentication dispatch.  `verdict` is what the verifier of the         *)
(* attempt's method returns; it is consulted only when that verifier       *)
(* exists.  The result is the Auth value handed back to the transport.     *)
(***************************************************************************)
AuthAccept == [accept |-> TRUE, proceed_with_methods |-> None]
AuthReject(methods) == [accept |-> FALSE, proceed_with_methods |-> methods]

AuthPublickeyRejectsSilently(a, verdict) ==
    LET rejection == AuthReject(None)
    IN  IF a.pubkey
        THEN IF verdict THEN AuthAccept ELSE rejection
        ELSE IF IsEmpty(a) THEN AuthAccept ELSE rejection

AuthPublickeyDecision(a, verdict) ==
    LET rejection == AuthReject(Some({"Password"}))
    IN  IF a.pubkey
        THEN IF verdict THEN AuthAccept ELSE rejection
        ELSE IF IsEmpty(a) THEN AuthAccept ELSE rejection

AuthPasswordAcceptsAll(a, verdict) == AuthAccept

AuthPasswordAdvertises(a, verdict) ==
    LET rejection == AuthReject(Some({"PublicKey"}))
    IN  IF a.password
        THEN IF verdict THEN AuthAccept ELSE rejection
        ELSE IF IsEmpty(a) THEN AuthAccept ELSE rejection

AuthPasswordDecision(a, verdict) ==
    LET rejection == AuthReject(None)
    IN  IF a.password
        THEN IF verdict THEN AuthAccept ELSE rejection
        ELSE IF IsEmpty(a) THEN AuthAccept ELSE rejection


(***************************************************************************)
(* String::from_utf8_lossy, as a sequence of code points: every maximal    *)
(* ill-formed part of the input becomes one U+FFFD.                        *)
(***************************************************************************)
ReplacementChar == 65533

IsCont(b) == b >= 128 /\ b <= 191

Utf8Width(b) ==
    IF b < 128 THEN 1
    ELSE IF b >= 194 /\ b <= 223 THEN 2
    ELSE IF b >= 224 /\ b <= 239 THEN 3
    ELSE IF b >= 240 /\ b <= 244 THEN 4
    ELSE 0

SecondOk(lead, b) ==
    CASE lead = 224 -> b >= 160 /\ b <= 191
      [] lead = 237 -> b >= 128 /\ b <= 159
      [] lead = 240 -> b >= 144 /\ b <= 191
      [] lead = 244 -> b >= 128 /\ b <= 143
      [] OTHER -> IsCont(b)

RECURSIVE Utf8LossyFrom(_, _)
Utf8LossyFrom(d, i) ==
    IF i > Len(d) THEN <<>>
    ELSE LET b == d[i]
             w == Utf8Width(b)
             has(k) == i + k <= Len(d)
         IN  IF w = 0 THEN <<ReplacementChar>> \o Utf8LossyFrom(d, i + 1)
             ELSE IF w = 1 THEN <<b>> \o Utf8LossyFrom(d, i + 1)
             ELSE IF ~has(1) \/ ~SecondOk(b, d[i + 1])
                  THEN <<ReplacementChar>> \o Utf8LossyFrom(d, i + 1)
             ELSE IF w = 2
                  THEN <<(b - 192) * 64 + (d[i + 1] - 128)>> \o Utf8LossyFrom(d, i + 2)
             ELSE IF ~has(2) \/ ~IsCont(d[i + 2])
                  THEN <<ReplacementChar>> \o Utf8LossyFrom(d, i + 2)
             ELSE IF w = 3
                  THEN <<(b - 224) * 4096 + (d[i + 1] - 128) * 64 + (d[i + 2] - 128)>>
                       \o Utf8LossyFrom(d, i + 3)
             ELSE IF ~has(3) \/ ~IsCont(d[i + 3])
                  THEN <<ReplacementChar>> \o Utf8LossyFrom(d, i + 3)
             ELSE <<(b - 240) * 262144 + (d[i + 1] - 128) * 4096
                    + (d[i + 2] - 128) * 64 + (d[i + 3] - 128)>>
                  \o Utf8LossyFrom(d, i + 4)

Utf8Lossy(d) == Utf8LossyFrom(d, 1)

(***************************************************************************)
(* SessionKind and Session                                                 *)
(***************************************************************************)
KindPty(term, size) == [tag |-> "Pty", term |-> term, size |-> size]
KindExec(command) == [tag |-> "Exec", command |-> command]
KindShell == [tag |-> "Shell"]
KindSubsystem(name) == [tag |-> "Subsystem", name |-> name]

EmptyEnv == [n \in EnvNames |-> None]
EnvInsert(e, n, v) == [e EXCEPT ![n] = Some(v)]

\* Session::new: the exit code starts absent.
SessionNew(ch, kind, u, e) ==
    [channel |-> ch, kind |-> kind, user |-> u, env |-> e, exit_code |-> None]

\* self.user.clone().unwrap_or_else(|| "unknown".into())
UserAlwaysUnknown(u) == "unknown"

UserOrUnknown(u) == IF u = None THEN "unknown" ELSE u[1]

\* The kind each promoting request builds from the pending pty it took.
ShellKindIgnoringPty(p) == KindShell

ShellKind(p) ==
    IF p # None THEN KindPty(p[1][1], p[1][2]) ELSE KindShell

ExecKind(p, data) ==
    LET command == Utf8Lossy(data)
    IN  IF p # None THEN KindPty(p[1][1], p[1][2]) ELSE KindExec(command)

SubsystemKind(name) == KindSubsystem(name)

(***************************************************************************)
(* The chain: build_chain wraps the handler in one MiddlewareHandler per   *)
(* middleware, going through the list in reverse.                          *)
(***************************************************************************)
TheHandler == [handler |-> "H"]
IsMiddlewareHandler(c) == "middleware" \in DOMAIN c

RECURSIVE Reverse(_)
Reverse(s) == IF s = <<>> THEN <<>> ELSE Append(Reverse(Tail(s)), Head(s))

RECURSIVE WrapAll(_, _)
WrapAll(chain, mws) ==
    IF mws = <<>> THEN chain
    ELSE WrapAll([middleware |-> Head(mws), next |-> chain], Tail(mws))

BuildChainInOrder(handler, mws) == WrapAll(handler, mws)

BuildChain(handler, mws) == WrapAll(handler, Reverse(mws))

(***************************************************************************)
(* Frames a Session sends on its channel.                                  *)
(***************************************************************************)
Data(payload) == [frame |-> "data", payload |-> payload]
ExitStatus(code) == [frame |-> "exit-status", code |-> code]
Eof == [frame |-> "eof"]
\* Session::write_stderr: extended data of type 1
ExtendedData(ext, payload) == [frame |-> "extended-data", ext |-> ext, payload |-> payload]
Close == [frame |-> "close"]

\* Session::do_exit: nothing at all without a stored code.
DoExitEofFirst(s) ==
    IF s.exit_code = None THEN <<>>
    ELSE <<Eof, ExitStatus(s.exit_code[1]), Close>>

DoExit(s) ==
    IF s.exit_code = None THEN <<>>
    ELSE <<ExitStatus(s.exit_code[1]), Eof, Close>>

\* Session::exit_code and Session::will_exit
ExitCode(s) == s.exit_code
WillExit(s) == s.exit_code # None

\* Session::pty, Session::pty_size and Session::term
Pty(s) == IF s.kind.tag = "Pty" THEN Some(<<s.kind.term, s.kind.size>>) ELSE None
PtySizeOf(s) == IF Pty(s) = None THEN None ELSE Some(Pty(s)[1][2])
Term(s) == IF Pty(s) = None THEN None ELSE Some(Pty(s)[1][1])

\* Session::command
Command(s) == IF s.kind.tag = "Exec" THEN Some(s.kind.command) ELSE None

(***************************************************************************)
(* The messages the transport queues on a channel (ChannelMsg) and the     *)
(* events Session::next makes of them.                                     *)
(***************************************************************************)
MsgData(data) == [msg |-> "Data", data |-> data]
MsgWindowChange(cols, rows, pw, ph) ==
    [msg |-> "WindowChange", col_width |-> cols, row_height |-> rows,
     pix_width |-> pw, pix_height |-> ph]
MsgSignal(sig) == [msg |-> "Signal", signal |-> sig]
MsgEof == [msg |-> "Eof"]
MsgWindowAdjusted == [msg |-> "WindowAdjusted"]
MsgClose == [msg |-> "Close"]

EventInput(data) == [event |-> "Input", data |-> data]
EventResize(size) == [event |-> "Resize", size |-> size]
EventSignal(sig) == [event |-> "Signal", signal |-> sig]
EventEof == [event |-> "Eof"]

\* What next() returns together with the Session and the queue it leaves.
Pumped(s, q, ev) == [session |-> s, rx |-> q, event |-> ev]

\* Session::next on the queue q: wait() hands over the messages in order
\* and None once the queue is drained (next is only run when it does not
\* block, see CanPump).
RECURSIVE SessionNextKeepsSize(_, _)
SessionNextKeepsSize(s, q) ==
    IF q = <<>> THEN Pumped(s, q, None)
    ELSE LET m == Head(q)
         IN  CASE m.msg = "Data" -> Pumped(s, Tail(q), Some(EventInput(m.data)))
               [] m.msg = "WindowChange" ->
                    LET new_size == [width |-> m.col_width, height |-> m.row_height,
                                     pixel_width |-> m.pix_width,
                                     pixel_height |-> m.pix_height]
                    IN  Pumped(s, Tail(q), Some(EventResize(new_size)))
               [] m.msg = "Signal" -> Pumped(s, Tail(q), Some(EventSignal(m.signal)))
               [] m.msg = "Eof" -> Pumped(s, Tail(q), Some(EventEof))
               [] OTHER -> SessionNextKeepsSize(s, Tail(q))

RECURSIVE SessionNextStopsAtUnknown(_, _)
SessionNextStopsAtUnknown(s, q) ==
    IF q = <<>> THEN Pumped(s, q, None)
    ELSE LET m == Head(q)
         IN  CASE m.msg = "Data" -> Pumped(s, Tail(q), Some(EventInput(m.data)))
               [] m.msg = "WindowChange" ->
                    LET new_size == [width |-> m.col_width, height |-> m.row_height,
                                     pixel_width |-> m.pix_width,
                                     pixel_height |-> m.pix_height]
                    IN  Pumped(IF s.kind.tag = "Pty"
                               THEN [s EXCEPT !.kind.size = new_size] ELSE s,
                               Tail(q), Some(EventResize(new_size)))
               [] m.msg = "Signal" -> Pumped(s, Tail(q), Some(EventSignal(m.signal)))
               [] m.msg = "Eof" -> Pumped(s, Tail(q), Some(EventEof))
               [] OTHER -> Pumped(s, Tail(q), None)

RECURSIVE SessionNext(_, _)
SessionNext(s, q) ==
    IF q = <<>> THEN Pumped(s, q, None)
    ELSE LET m == Head(q)
         IN  CASE m.msg = "Data" -> Pumped(s, Tail(q), Some(EventInput(m.data)))
               [] m.msg = "WindowChange" ->
                    LET new_size == [width |-> m.col_width, height |-> m.row_height,
                                     pixel_width |-> m.pix_width,
                                     pixel_height |-> m.pix_height]
                    IN  Pumped(IF s.kind.tag = "Pty"
                               THEN [s EXCEPT !.kind.size = new_size] ELSE s,
                               Tail(q), Some(EventResize(new_size)))
               [] m.msg = "Signal" -> Pumped(s, Tail(q), Some(EventSignal(m.signal)))
               [] m.msg = "Eof" -> Pumped(s, Tail(q), Some(EventEof))
               [] OTHER -> SessionNext(s, Tail(q))

\* Session::input: one next(); an Input event gives its data, any other
\* event gives None, as does the end of the stream.
SessionInput(s, q) ==
    LET r == SessionNext(s, q)
        data == IF r.event # None /\ r.event[1].event = "Input"
                THEN Some(r.event[1].data) ELSE None
    IN  [session |-> r.session, rx |-> r.rx, event |-> r.event, data |-> data]

\* One Session method call, for the history of a task.
MethodCall(name, arg, res) == [call |-> name, arg |-> arg, ret |-> res]

\* run_handler: the task starts by calling the chain with the Session.
\* `rx` are the messages queued on the Session's channel, `closed` says
\* that no more will come; `recv`, `hist` and `pumped` are history: the
\* messages queued so far, the Session method calls made so far, and the
\* results of the next() calls among them (those made by input() included).
NewTask(handler, session) ==
    [session |-> session, pc |-> "call", cur |-> handler, stack |-> <<>>,
     ret |-> "", wire |-> <<>>, calls |-> <<>>, ops |-> 0,
     aborted |-> FALSE, logged |-> FALSE, dropped |-> FALSE,
     rx |-> <<>>, closed |-> FALSE, recv |-> <<>>, hist |-> <<>>, pumped |-> <<>>]


(***************************************************************************)
(* The protocol adapter, ShenronHandler.  The transport calls it: an       *)
(* authentication attempt while the connection is not authenticated, a     *)
(* channel-open once it is, and channel requests naming an open channel.   *)
(* The adapter itself never looks at the channel id of a request, except   *)
(* to answer it.  A connection is followed on after a Protocol error; a    *)
(* transport that ends it there only removes behaviours.                   *)
(***************************************************************************)
Reply(op, ch, res, methods) ==
    [op |-> op, chan |-> ch, res |-> res, proceed_with_methods |-> methods]

Attempt(method, u, verdict) == [method |-> method, user |-> u, verdict |-> verdict]

\* What the transport keeps of an authentication call: the attempt and
\* the Auth value it was answered with.
AuthReply(op, a, d) ==
    [op |-> op, chan |-> 0, res |-> IF d.accept THEN "Accept" ELSE "Reject",
     proceed_with_methods |-> d.proceed_with_methods, attempt |-> a]

\* The verifier's answers an attempt can meet: none is asked when absent.
Verdicts(present) == IF present THEN BOOLEAN ELSE {FALSE}

AuthPublickey(u, verdict) ==
    /\ serving /\ ~authed /\ nreq < MaxRequests
    /\ LET d == AuthPublickeyDecision(auth, verdict)
       IN  /\ user' = IF d.accept THEN Some(u) ELSE user
           /\ authed' = d.accept
           /\ accepted' = IF d.accept THEN Some(Attempt("PublicKey", u, verdict))
                          ELSE accepted
           /\ rejected' = IF d.accept THEN rejected ELSE rejected \cup {u}
           /\ last' = AuthReply("auth_publickey", Attempt("PublicKey", u, verdict), d)
    /\ nreq' = nreq + 1
    /\ UNCHANGED <<builderVars, auth, channel, env, pty, opened, tasks,
                   envSince, ptySince, promo>>

AuthPassword(u, verdict) ==
    /\ serving /\ ~authed /\ nreq < MaxRequests
    /\ LET d == AuthPasswordDecision(auth, verdict)
       IN  /\ user' = IF d.accept THEN Some(u) ELSE user
           /\ authed' = d.accept
           /\ accepted' = IF d.accept THEN Some(Attempt("Password", u, verdict))
                          ELSE accepted
           /\ rejected' = IF d.accept THEN rejected ELSE rejected \cup {u}
           /\ last' = AuthReply("auth_password", Attempt("Password", u, verdict), d)
    /\ nreq' = nreq + 1
    /\ UNCHANGED <<builderVars, auth, channel, env, pty, opened, tasks,
                   envSince, ptySince, promo>>

ChannelOpenSession ==
    /\ serving /\ authed /\ nreq < MaxRequests /\ opened < MaxChannels
    /\ LET id == opened + 1
       IN  /\ channel' = Some(id)
           /\ opened' = id
           /\ envSince' = [envSince EXCEPT ![id] = EmptyEnv]
           /\ ptySince' = [ptySince EXCEPT ![id] = None]
           /\ last' = Reply("channel_open_session", id, "Ok", None)
    /\ nreq' = nreq + 1
    /\ UNCHANGED <<builderVars, auth, user, env, pty, authed, tasks, accepted,
                   rejected, promo>>

EnvRequest(c, n, v) ==
    /\ serving /\ authed /\ nreq < MaxRequests /\ c \in 1..opened
    /\ env' = EnvInsert(env, n, v)
    /\ envSince' = [k \in ChannelIds |->
                      IF k <= opened THEN EnvInsert(envSince[k], n, v) ELSE envSince[k]]
    /\ last' = Reply("env_request", c, "Ok", None)
    /\ nreq' = nreq + 1
    /\ UNCHANGED <<builderVars, auth, channel, user, pty, authed, opened, tasks,
                   accepted, rejected, ptySince, promo>>

PtyRequest(c, term, size) ==
    /\ serving /\ authed /\ nreq < MaxRequests /\ c \in 1..opened
    /\ pty' = Some(<<term, size>>)
    /\ ptySince' = [ptySince EXCEPT ![c] = Some(<<term, size>>)]
    /\ last' = Reply("pty_request", c, "Success", None)
    /\ nreq' = nreq + 1
    /\ UNCHANGED <<builderVars, auth, channel, user, env, authed, opened, tasks,
                   accepted, rejected, envSince, promo>>

\* What history keeps of a promoting request: its inputs and the adapter's
\* state when it arrived.
Promotion(op, c, arg) ==
    [op |-> op, chan |-> c, arg |-> arg, pty |-> pty, user |-> user,
     window |-> envSince[c], ptyWindow |-> ptySince[c]]

\* run_handler: spawn a task that owns the Session; nobody awaits it.
RunHandlerAwaits(handler, session) ==
    tasks' = Append(tasks, [NewTask(handler, session) EXCEPT
                               !.pc = "done", !.ret = "Ok", !.dropped = TRUE,
                               !.calls = <<"H">>, !.wire = <<Eof, Close>>])

RunHandler(handler, session) == tasks' = Append(tasks, NewTask(handler, session))

\* The early return all three promoting requests share: no stored channel.
NoChannelClearsPending(op, c) ==
    /\ channel = None
    /\ last' = Reply(op, c, "Protocol", None)
    /\ pty' = None
    /\ env' = EmptyEnv
    /\ UNCHANGED <<channel, user, tasks, promo>>

NoChannel(op, c) ==
    /\ channel = None
    /\ last' = Reply(op, c, "Protocol", None)
    /\ UNCHANGED <<channel, user, env, pty, tasks, promo>>

ShellRequestKeepsChannel(c) ==
    /\ serving /\ authed /\ nreq < MaxRequests /\ c \in 1..opened
    /\ \/ NoChannel("shell_request", c)
       \/ /\ channel # None
          /\ pty' = None
          /\ env' = EmptyEnv
          /\ RunHandler(app[1], SessionNew(channel[1], ShellKind(pty),
                                           UserOrUnknown(user), env))
          /\ promo' = Append(promo, Promotion("shell_request", c, <<>>))
          /\ last' = Reply("shell_request", c, "Success", None)
          /\ UNCHANGED <<user, channel>>
    /\ nreq' = nreq + 1
    /\ UNCHANGED <<builderVars, auth, authed, opened, accepted, rejected, envSince,
                   ptySince>>

ShellRequest(c) ==
    /\ serving /\ authed /\ nreq < MaxRequests /\ c \in 1..opened
    /\ \/ NoChannel("shell_request", c)
       \/ /\ channel # None
          /\ channel' = None
          /\ pty' = None
          /\ env' = EmptyEnv
          /\ RunHandler(app[1], SessionNew(channel[1], ShellKind(pty),
                                           UserOrUnknown(user), env))
          /\ promo' = Append(promo, Promotion("shell_request", c, <<>>))
          /\ last' = Reply("shell_request", c, "Success", None)
          /\ UNCHANGED user
    /\ nreq' = nreq + 1
    /\ UNCHANGED <<builderVars, auth, authed, opened, accepted, rejected, envSince,
                   ptySince>>

ExecRequestClonesEnv(c, data) ==
    /\ serving /\ authed /\ nreq < MaxRequests /\ c \in 1..opened
    /\ \/ NoChannel("exec_request", c)
       \/ /\ channel # None
          /\ channel' = None
          /\ pty' = None
          /\ RunHandler(app[1], SessionNew(channel[1], ExecKind(pty, data),
                                           UserOrUnknown(user), env))
          /\ promo' = Append(promo, Promotion("exec_request", c, data))
          /\ last' = Reply("exec_request", c, "Success", None)
          /\ UNCHANGED <<user, env>>
    /\ nreq' = nreq + 1
    /\ UNCHANGED <<builderVars, auth, authed, opened, accepted, rejected, envSince,
                   ptySince>>

ExecRequest(c, data) ==
    /\ serving /\ authed /\ nreq < MaxRequests /\ c \in 1..opened
    /\ \/ NoChannel("exec_request", c)
       \/ /\ channel # None
          /\ channel' = None
          /\ pty' = None
          /\ env' = EmptyEnv
          /\ RunHandler(app[1], SessionNew(channel[1], ExecKind(pty, data),
                                           UserOrUnknown(user), env))
          /\ promo' = Append(promo, Promotion("exec_request", c, data))
          /\ last' = Reply("exec_request", c, "Success", None)
          /\ UNCHANGED user
    /\ nreq' = nreq + 1
    /\ UNCHANGED <<builderVars, auth, authed, opened, accepted, rejected, envSince,
                   ptySince>>

\* subsystem_request does not look at the pending pty: it stays pending.
SubsystemRequest(c, name) ==
    /\ serving /\ authed /\ nreq < MaxRequests /\ c \in 1..opened
    /\ \/ NoChannel("subsystem_request", c)
       \/ /\ channel # None
          /\ channel' = None
          /\ env' = EmptyEnv
          /\ RunHandler(app[1], SessionNew(channel[1], SubsystemKind(name),
                                           UserOrUnknown(user), env))
          /\ promo' = Append(promo, Promotion("subsystem_request", c, name))
          /\ last' = Reply("subsystem_request", c, "Success", None)
          /\ UNCHANGED <<user, pty>>
    /\ nreq' = nreq + 1
    /\ UNCHANGED <<builderVars, auth, authed, opened, accepted, rejected, envSince,
                   ptySince>>

AdapterNext ==
    \/ \E u \in Users, v \in Verdicts(auth.pubkey) : AuthPublickey(u, v)
    \/ \E u \in Users, v \in Verdicts(auth.password) : AuthPassword(u, v)
    \/ ChannelOpenSession
    \/ \E c \in ChannelIds, n \in EnvNames, v \in EnvValues : EnvRequest(c, n, v)
    \/ \E c \in ChannelIds, t \in Terms, z \in PtySizes : PtyRequest(c, t, z)
    \/ \E c \in ChannelIds : ShellRequest(c)
    \/ \E c \in ChannelIds, d \in ExecData : ExecRequest(c, d)
    \/ \E c \in ChannelIds, n \in SubsystemNames : SubsystemRequest(c, n)

(***************************************************************************)
(* A connection of a server built with app(handler) alone, under each of   *)
(* the four auth configurations.                                           *)
(***************************************************************************)
NoHistory ==
    /\ frozen = <<>>
    /\ nwith = 0
    /\ accepted = None
    /\ rejected = {}
    /\ envSince = [k \in ChannelIds |-> EmptyEnv]
    /\ ptySince = [k \in ChannelIds |-> None]
    /\ promo = <<>>

(***************************************************************************)
(* SftpHandler: the handle table of one sftp session                       *)
(***************************************************************************)
MaxHandleIds == 2

HandleWidth == 16
HexDigits == <<"0", "1", "2", "3", "4", "5", "6", "7", "8", "9", "a", "b", "c", "d",
               "e", "f">>

\* format!("{id:016x}"): lower-case hexadecimal, zero-padded to sixteen digits.
RECURSIVE LowerHex(_, _)
LowerHex(id, width) ==
    IF width = 0 THEN <<>>
    ELSE Append(LowerHex(id \div 16, width - 1), HexDigits[(id % 16) + 1])

FormatHandle(id) == LowerHex(id, HandleWidth)

\* HandleType::File and HandleType::Dir { read }.
FileHandle == [type |-> "File", read |-> FALSE]
DirHandle(read) == [type |-> "Dir", read |-> read]

\* SftpHandler::new: no handles, the counter at zero.
SftpHandlerNew == [handles |-> <<>>, next_handle |-> 0]
NoSftpLog == [last |-> [op |-> "init", handle |-> <<>>, reply |-> "Version"],
              issued |-> <<>>, closed |-> {}, closing |-> {}]
NoSftp ==
    /\ sftp = SftpHandlerNew
    /\ sftpLog = NoSftpLog

\* The handle strings a peer sends: every one it was given and one it never was.
HandleNames == {FormatHandle(id) : id \in 0..MaxHandleIds}

\* HashMap::insert, HashMap::remove and HashMap::get on the handle table.
Insert(m, k, v) == [x \in DOMAIN m \cup {k} |-> IF x = k THEN v ELSE m[x]]
Remove(m, k) == [x \in DOMAIN m \ {k} |-> m[x]]
Get(m, k) == IF k \in DOMAIN m THEN Some(m[k]) ELSE None

\* What the peer's record keeps of one request and its reply: the handles it
\* was given, those whose close was answered Ok, and those a close found in
\* the table.
Answered(op, handle, reply) ==
    [sftpLog EXCEPT
        !.last = [op |-> op, handle |-> handle, reply |-> reply],
        !.issued = IF reply = "Handle" THEN Append(@, handle) ELSE @,
        !.closed = IF op = "close" /\ reply = "Ok" THEN @ \cup {handle} ELSE @,
        !.closing = IF op = "close" /\ handle \in DOMAIN sftp.handles
                    THEN @ \cup {handle} ELSE @]

otherVars == <<middleware, app, auth, channel, user, env, pty, authed, opened, last,
               nreq, serving, tasks, frozen, nwith, accepted, rejected, envSince,
               ptySince, promo, addr, keys, shutdown, result, conns, inflight>>

\* next_handle: fetch_add returns the counter's value before the increment.
NextHandle == FormatHandle(sftp.next_handle)

\* open: the id is taken before the filesystem is asked, so a failed open
\* uses one up.
SftpOpen(ok) ==
    /\ sftp.next_handle < MaxHandleIds
    /\ LET handle == NextHandle IN
        IF ok
        THEN /\ sftp' = [sftp EXCEPT !.next_handle = @ + 1,
                                     !.handles = Insert(@, handle, FileHandle)]
             /\ sftpLog' = Answered("open", handle, "Handle")
        ELSE /\ sftp' = [sftp EXCEPT !.next_handle = @ + 1]
             /\ sftpLog' = Answered("open", <<>>, "NoSuchFile")
    /\ UNCHANGED otherVars

\* opendir: read_dir comes first, and only a listing that succeeded takes an id.
SftpOpendir(ok) ==
    /\ sftp.next_handle < MaxHandleIds
    /\ LET handle == NextHandle IN
        IF ok
        THEN /\ sftp' = [sftp EXCEPT !.next_handle = @ + 1,
                                     !.handles = Insert(@, handle, DirHandle(FALSE))]
             /\ sftpLog' = Answered("opendir", handle, "Handle")
        ELSE /\ sftp' = sftp
             /\ sftpLog' = Answered("opendir", <<>>, "NoSuchFile")
    /\ UNCHANGED otherVars

SftpCloseKeepsHandle(handle, closeOk) ==
    /\ sftp' = sftp
    /\ sftpLog' = Answered("close", handle,
                           IF Get(sftp.handles, handle) = None THEN "Failure" ELSE "Ok")
    /\ UNCHANGED otherVars

\* close: the entry is removed first; a file whose close fails is gone all the same.
SftpClose(handle, closeOk) ==
    /\ LET removed == Get(sftp.handles, handle) IN
        /\ sftp' = [sftp EXCEPT !.handles = Remove(@, handle)]
        /\ sftpLog' = Answered("close", handle,
                               IF removed = None THEN "Failure"
                               ELSE IF removed[1].type = "File" /\ ~closeOk THEN "Failure"
                               ELSE "Ok")
    /\ UNCHANGED otherVars

\* read: a handle that is missing or names a directory is a Failure; so is a
\* filesystem error; no bytes is Eof.
SftpRead(handle, outcome) ==
    /\ LET f == Get(sftp.handles, handle) IN
        sftpLog' = Answered("read", handle,
                            IF f = None \/ f[1].type # "File" THEN "Failure" ELSE outcome)
    /\ sftp' = sftp
    /\ UNCHANGED otherVars

SftpWrite(handle, ok) ==
    /\ LET f == Get(sftp.handles, handle) IN
        sftpLog' = Answered("write", handle,
                            IF f = None \/ f[1].type # "File" THEN "Failure"
                            ELSE IF ok THEN "Ok" ELSE "Failure")
    /\ sftp' = sftp
    /\ UNCHANGED otherVars

\* readdir: the whole listing on the first call, Eof on every later one.
SftpReaddir(handle) ==
    /\ LET d == Get(sftp.handles, handle) IN
        IF d = None \/ d[1].type # "Dir"
        THEN /\ sftpLog' = Answered("readdir", handle, "Failure")
             /\ sftp' = sftp
        ELSE IF d[1].read
        THEN /\ sftpLog' = Answered("readdir", handle, "Eof")
             /\ sftp' = sftp
        ELSE /\ sftpLog' = Answered("readdir", handle, "Name")
             /\ sftp' = [sftp EXCEPT !.handles[handle] = DirHandle(TRUE)]
    /\ UNCHANGED otherVars

ReadOutcomes == {"Data", "Eof", "Failure"}

NextSftp ==
    \/ \E ok \in BOOLEAN : SftpOpen(ok)
    \/ \E ok \in BOOLEAN : SftpOpendir(ok)
    \/ \E handle \in HandleNames, closeOk \in BOOLEAN : SftpClose(handle, closeOk)
    \/ \E handle \in HandleNames, outcome \in ReadOutcomes : SftpRead(handle, outcome)
    \/ \E handle \in HandleNames, ok \in BOOLEAN : SftpWrite(handle, ok)
    \/ \E handle \in HandleNames : SftpReaddir(handle)

NewClient ==
    /\ channel = None
    /\ user = None
    /\ env = EmptyEnv
    /\ pty = None
    /\ authed = FALSE
    /\ opened = 0
    /\ last = Reply("new_client", 0, "Ok", None)
    /\ nreq = 0
    /\ tasks = <<>>

\* The rest of a builder that serve() accepted, and its one connection.
Bound ==
    /\ addr = Some(BindAddr)
    /\ keys = 1
    /\ shutdown = FALSE
    /\ result = None
    /\ inflight = {}

Init ==
    /\ middleware = <<>>
    /\ app = Some(BuildChain(TheHandler, <<>>))
    /\ serving = TRUE
    /\ conns = 1
    /\ Bound
    /\ auth \in AuthConfigs
    /\ NewClient
    /\ NoHistory
    /\ NoSftp

Next == AdapterNext

Spec == Init /\ [][Next]_vars

SpecSftp == Init /\ [][NextSftp]_vars


(***************************************************************************)
(* The server builder.  with() pushes a middleware, app() assembles the    *)
(* chain from the middlewares pushed so far and takes them; each with()    *)
(* call is numbered (`id`) so that the layers can be told apart.           *)
(***************************************************************************)
MiddlewareKinds == {"logging", "Comment"}
CommentText == "bye"
\* elapsed, active_term and a middleware the application wrote (a closure
\* or its own impl of Middleware), which may do what the trait allows.
LayerKinds == MiddlewareKinds \cup {"elapsed", "active_term", "closure"}
ElapsedText == "Session lasted"
PtyRequired == "PTY required"
\* The middlewares whose post-work is `next.run(session).await?` and then
\* a write of their text.
WritesAfter == {"Comment", "elapsed"}

\* AccessControl: char::is_whitespace (the White_Space code points), and
\* command.split_whitespace().next().unwrap_or("") over the code points of
\* the command.
IsWhitespace(c) ==
    c \in (9..13) \cup {32, 133, 160, 5760} \cup (8192..8202)
          \cup {8232, 8233, 8239, 8287, 12288}

RECURSIVE SkipWhitespace(_)
SkipWhitespace(cmd) ==
    IF cmd # <<>> /\ IsWhitespace(Head(cmd)) THEN SkipWhitespace(Tail(cmd)) ELSE cmd

RECURSIVE TakeToken(_)
TakeToken(cmd) ==
    IF cmd = <<>> \/ IsWhitespace(Head(cmd)) THEN <<>>
    ELSE <<Head(cmd)>> \o TakeToken(Tail(cmd))

FirstTokenIsWholeCommand(cmd) == cmd

FirstToken(cmd) == TakeToken(SkipWhitespace(cmd))

\* AccessControl::is_allowed
IsAllowed(allowed, cmd) == \E k \in 1..Len(allowed) : allowed[k] = cmd

\* The exec sessions AccessControl turns away.
Denied(m, s) ==
    /\ m.kind = "AccessControl"
    /\ Command(s) # None
    /\ ~IsAllowed(m.allowed, FirstToken(Command(s)[1]))

CommandNotAllowed(cmd) == <<"Command not allowed: ", cmd>>
TextOf(m) == IF m.kind = "Comment" THEN CommentText ELSE ElapsedText

serveVars == <<addr, keys, shutdown, result, conns, inflight>>

With(kind) ==
    /\ ~serving /\ result = None /\ nwith < MaxMiddleware
    /\ middleware' = Append(middleware, [kind |-> kind, id |-> nwith + 1])
    /\ nwith' = nwith + 1
    /\ UNCHANGED <<sftpVars, app, serving, frozen, auth, adapterVars, transportVars, tasks,
                   historyVars, serveVars>>

App ==
    /\ ~serving /\ result = None
    /\ app' = Some(BuildChain(TheHandler, middleware))
    /\ middleware' = <<>>
    /\ frozen' = [k \in 1..Len(middleware) |-> middleware[k].id]
    /\ UNCHANGED <<sftpVars, serving, nwith, auth, adapterVars, transportVars, tasks,
                   historyVars, serveVars>>

Bind ==
    /\ ~serving /\ result = None /\ addr = None
    /\ addr' = Some(BindAddr)
    /\ UNCHANGED <<sftpVars, middleware, app, serving, frozen, nwith, keys, shutdown, result,
                   conns, inflight, auth, adapterVars, transportVars, tasks,
                   historyVars>>

HostKey ==
    /\ ~serving /\ result = None /\ keys < MaxKeys
    /\ keys' = keys + 1
    /\ UNCHANGED <<sftpVars, middleware, app, serving, frozen, nwith, addr, shutdown, result,
                   conns, inflight, auth, adapterVars, transportVars, tasks,
                   historyVars>>

ShutdownSignal ==
    /\ ~serving /\ result = None /\ ~shutdown
    /\ shutdown' = TRUE
    /\ UNCHANGED <<sftpVars, middleware, app, serving, frozen, nwith, addr, keys, result,
                   conns, inflight, auth, adapterVars, transportVars, tasks,
                   historyVars>>

\* serve()'s validation: the first missing field decides the error; None
\* means all three are there and the accept loop is entered.
ConfigError(msg) == [err |-> "Config", msg |-> msg]

ServeCheckSkipsKeys(a, k, h) ==
    IF a = None THEN Some(ConfigError("No bind address specified"))
    ELSE IF h = None THEN Some(ConfigError("No app handler specified"))
    ELSE None

ServeCheck(a, k, h) ==
    IF a = None THEN Some(ConfigError("No bind address specified"))
    ELSE IF k = 0 THEN Some(ConfigError("No host keys specified"))
    ELSE IF h = None THEN Some(ConfigError("No app handler specified"))
    ELSE None

Tasks == 1..Len(tasks)
Unfinished == {i \in Tasks : tasks[i].pc # "done"}

\* serve() takes the builder and either returns a Config error or runs the
\* accept loop, handing the assembled chain to the connections it accepts.
Serve ==
    /\ ~serving /\ result = None
    /\ LET e == ServeCheck(addr, keys, app)
       IN  /\ serving' = (e = None)
           /\ result' = IF e = None THEN None ELSE Some([Err |-> e[1]])
    /\ UNCHANGED <<sftpVars, middleware, app, frozen, nwith, addr, keys, shutdown, conns,
                   inflight, auth, adapterVars, transportVars, tasks, historyVars>>

\* The accept loop takes a connection (ShenronServer::new_client).
Accept ==
    /\ serving /\ conns < MaxConns
    /\ conns' = conns + 1
    /\ UNCHANGED <<sftpVars, middleware, app, serving, frozen, nwith, addr, keys, shutdown,
                   result, inflight, auth, adapterVars, transportVars, tasks,
                   historyVars>>

ShutdownCancelsTasks ==
    /\ serving /\ shutdown
    /\ serving' = FALSE
    /\ result' = Some([Ok |-> <<>>])
    /\ inflight' = Unfinished
    /\ tasks' = [i \in Tasks |-> IF tasks[i].pc = "done" THEN tasks[i]
                                 ELSE [tasks[i] EXCEPT !.pc = "done", !.dropped = TRUE]]
    /\ UNCHANGED <<sftpVars, middleware, app, frozen, nwith, addr, keys, shutdown, conns, auth,
                   adapterVars, transportVars, historyVars>>

\* The shutdown future resolves while the accept loop runs: select! drops
\* the loop and serve() returns Ok(()).
Shutdown ==
    /\ serving /\ shutdown
    /\ serving' = FALSE
    /\ result' = Some([Ok |-> <<>>])
    /\ inflight' = Unfinished
    /\ UNCHANGED <<sftpVars, middleware, app, frozen, nwith, addr, keys, shutdown, conns, auth,
                   adapterVars, transportVars, tasks, historyVars>>

\* The accept loop ends with an error of the transport, which serve() returns.
AcceptLoopFails ==
    /\ serving
    /\ serving' = FALSE
    /\ result' = Some([Err |-> [err |-> "Ssh", msg |-> "accept loop"]])
    /\ inflight' = Unfinished
    /\ UNCHANGED <<sftpVars, middleware, app, frozen, nwith, addr, keys, shutdown, conns, auth,
                   adapterVars, transportVars, tasks, historyVars>>

(***************************************************************************)
(* The handler task of one promoted channel.  `cur` is the ErasedHandler   *)
(* about to be called, `stack` the middlewares waiting for Next::run to    *)
(* return, `ret` the Result travelling back up.                            *)
(***************************************************************************)
SessionKinds ==
    {KindShell, KindExec(Utf8Lossy(<<108, 115>>))} \cup
    {KindPty(t, z) : t \in Terms, z \in {CHOOSE z \in PtySizes : z.width = 80}}

\* A promotion of the served connection spawns the task (run_handler).
Spawn(kind, u) ==
    /\ serving /\ tasks = <<>>
    /\ RunHandler(app[1], SessionNew(1, kind, u, EmptyEnv))
    /\ UNCHANGED <<builderVars, auth, adapterVars, transportVars, historyVars>>

Trace(ev, id) == [ev |-> ev, id |-> id]

\* active_term without a pty: write_stderr_str, then session.abort(1).
ActiveTermRefusalByExit(t, m) ==
    [t EXCEPT !.session = [t.session EXCEPT !.exit_code = Some(1)],
              !.wire = Append(@, ExtendedData(1, PtyRequired)),
              !.pc = "return", !.ret = "Ok",
              !.hist = @ \o <<MethodCall("write_stderr", PtyRequired, "Ok"),
                              MethodCall("exit", 1, "Ok")>>,
              !.calls = Append(@, Trace("shortOk", m.id))]

ActiveTermRefusal(t, m) ==
    LET s == [t.session EXCEPT !.exit_code = Some(1)]
    IN  [t EXCEPT !.session = s,
                  !.wire = Append(@, ExtendedData(1, PtyRequired)) \o DoExit(s),
                  !.aborted = TRUE,
                  !.pc = "return", !.ret = "Ok",
                  !.hist = @ \o <<MethodCall("write_stderr", PtyRequired, "Ok"),
                                  MethodCall("abort", 1, "Ok")>>,
                  !.calls = Append(@, Trace("shortOk", m.id))]

\* MiddlewareHandler::call: hand the session and Next(next) to the
\* middleware, which runs up to its Next::run; or enter the handler.
\* active_term on a session without a pty does not run Next: it writes to
\* stderr and returns session.abort(1).  AccessControl on an exec session
\* whose command it does not allow does not either: it writes to stderr and
\* returns session.exit(1).
Call(i) ==
    LET t == tasks[i]
    IN  /\ t.pc = "call"
        /\ IF IsMiddlewareHandler(t.cur)
           THEN LET m == t.cur.middleware
                    s == [t.session EXCEPT !.exit_code = Some(1)]
                    x == [t.session EXCEPT !.exit_code = Some(1)]
                    cmd == FirstToken(Command(t.session)[1])
                IN  IF Denied(m, t.session)
                    THEN tasks' = [tasks EXCEPT ![i] =
                        [t EXCEPT !.session = x,
                                  !.wire = Append(@, ExtendedData(1, CommandNotAllowed(cmd))),
                                  !.pc = "return", !.ret = "Ok",
                                  !.hist = @ \o <<MethodCall("write_stderr",
                                                             CommandNotAllowed(cmd), "Ok"),
                                                  MethodCall("exit", 1, "Ok")>>,
                                  !.calls = Append(@, Trace("shortOk", m.id))]]
                    ELSE IF m.kind = "active_term" /\ Pty(t.session) = None
                    THEN tasks' = [tasks EXCEPT ![i] = ActiveTermRefusal(t, m)]
                    ELSE tasks' = [tasks EXCEPT ![i] =
                        [t EXCEPT !.stack = Append(@, m),
                                  !.cur = t.cur.next,
                                  !.calls = Append(@, Trace("pre", m.id))]]
           ELSE tasks' = [tasks EXCEPT ![i] =
                        [t EXCEPT !.pc = "handler",
                                  !.calls = Append(@, Trace("H", 0))]]
        /\ UNCHANGED <<builderVars, auth, adapterVars, transportVars, historyVars>>

\* A middleware of the application returns r without running Next.
ShortCircuitRunsNext(i, r) ==
    LET t == tasks[i]
        m == t.cur.middleware
    IN  /\ t.pc = "call" /\ IsMiddlewareHandler(t.cur) /\ m.kind = "closure"
        /\ tasks' = [tasks EXCEPT ![i] =
               [t EXCEPT !.stack = Append(@, m),
                         !.cur = t.cur.next,
                         !.calls = Append(@, Trace("short" \o r, m.id))]]
        /\ UNCHANGED <<builderVars, auth, adapterVars, transportVars, historyVars>>

ShortCircuit(i, r) ==
    LET t == tasks[i]
        m == t.cur.middleware
    IN  /\ t.pc = "call" /\ IsMiddlewareHandler(t.cur) /\ m.kind = "closure"
        /\ tasks' = [tasks EXCEPT ![i] =
               [t EXCEPT !.pc = "return", !.ret = r,
                         !.calls = Append(@, Trace("short" \o r, m.id))]]
        /\ UNCHANGED <<builderVars, auth, adapterVars, transportVars, historyVars>>

\* The application handler: any sequence of writes, exit and abort, then a
\* result.
HandlerWrite(i) ==
    LET t == tasks[i]
    IN  /\ t.pc = "handler" /\ t.ops < MaxHandlerOps
        /\ tasks' = [tasks EXCEPT ![i] =
               [t EXCEPT !.wire = Append(@, Data("out")), !.ops = @ + 1,
                         !.hist = Append(@, MethodCall("write", "out", "Ok"))]]
        /\ UNCHANGED <<builderVars, auth, adapterVars, transportVars, historyVars>>

HandlerExitKeepsFirst(i, code) ==
    LET t == tasks[i]
    IN  /\ t.pc = "handler" /\ t.ops < MaxHandlerOps
        /\ tasks' = [tasks EXCEPT ![i] =
               [t EXCEPT !.session.exit_code = IF @ = None THEN Some(code) ELSE @,
                         !.ops = @ + 1,
                         !.hist = Append(@, MethodCall("exit", code, "Ok"))]]
        /\ UNCHANGED <<builderVars, auth, adapterVars, transportVars, historyVars>>

HandlerExitFinalizes(i, code) ==
    LET t == tasks[i]
        s == [t.session EXCEPT !.exit_code = Some(code)]
    IN  /\ t.pc = "handler" /\ t.ops < MaxHandlerOps
        /\ tasks' = [tasks EXCEPT ![i] =
               [t EXCEPT !.session = s, !.wire = @ \o DoExit(s), !.ops = @ + 1,
                         !.hist = Append(@, MethodCall("exit", code, "Ok"))]]
        /\ UNCHANGED <<builderVars, auth, adapterVars, transportVars, historyVars>>

HandlerExit(i, code) ==
    LET t == tasks[i]
    IN  /\ t.pc = "handler" /\ t.ops < MaxHandlerOps
        /\ tasks' = [tasks EXCEPT ![i] =
               [t EXCEPT !.session.exit_code = Some(code), !.ops = @ + 1,
                         !.hist = Append(@, MethodCall("exit", code, "Ok"))]]
        /\ UNCHANGED <<builderVars, auth, adapterVars, transportVars, historyVars>>

HandlerAbortKeepsCode(i, code) ==
    LET t == tasks[i]
        s == [t.session EXCEPT !.exit_code = IF @ = None THEN Some(code) ELSE @]
    IN  /\ t.pc = "handler" /\ t.ops < MaxHandlerOps
        /\ tasks' = [tasks EXCEPT ![i] =
               [t EXCEPT !.session = s, !.wire = @ \o DoExit(s),
                         !.aborted = TRUE, !.ops = @ + 1,
                         !.hist = Append(@, MethodCall("abort", code, "Ok"))]]
        /\ UNCHANGED <<builderVars, auth, adapterVars, transportVars, historyVars>>

HandlerAbort(i, code) ==
    LET t == tasks[i]
        s == [t.session EXCEPT !.exit_code = Some(code)]
    IN  /\ t.pc = "handler" /\ t.ops < MaxHandlerOps
        /\ tasks' = [tasks EXCEPT ![i] =
               [t EXCEPT !.session = s, !.wire = @ \o DoExit(s),
                         !.aborted = TRUE, !.ops = @ + 1,
                         !.hist = Append(@, MethodCall("abort", code, "Ok"))]]
        /\ UNCHANGED <<builderVars, auth, adapterVars, transportVars, historyVars>>

HandlerReturn(i, r) ==
    LET t == tasks[i]
    IN  /\ t.pc = "handler"
        /\ tasks' = [tasks EXCEPT ![i] = [t EXCEPT !.pc = "return", !.ret = r]]
        /\ UNCHANGED <<builderVars, auth, adapterVars, transportVars, historyVars>>

\* Next::run returned into the innermost waiting middleware, which does its
\* post-work: logging logs either result and passes it on; Comment and
\* elapsed pass an Err straight up (`?`) and write their text after an Ok;
\* active_term returns what Next::run returned.
ReturnWritesOnErr(i) ==
    LET t == tasks[i]
        m == t.stack[Len(t.stack)]
    IN  /\ t.pc = "return" /\ t.stack # <<>>
        /\ tasks' = [tasks EXCEPT ![i] =
               [t EXCEPT !.stack = SubSeq(@, 1, Len(@) - 1),
                         !.wire = IF m.kind \in WritesAfter
                                  THEN Append(@, Data(TextOf(m))) ELSE @,
                         !.hist = IF m.kind \in WritesAfter
                                  THEN Append(@, MethodCall("write", TextOf(m), "Ok"))
                                  ELSE @,
                         !.calls = Append(@, Trace("post", m.id))]]
        /\ UNCHANGED <<builderVars, auth, adapterVars, transportVars, historyVars>>

ReturnCommentFirst(i) ==
    LET t == tasks[i]
        m == t.stack[Len(t.stack)]
        ran == m.kind = "logging" \/ t.ret = "Ok"
    IN  /\ t.pc = "return" /\ t.stack # <<>>
        /\ tasks' = [tasks EXCEPT ![i] =
               [t EXCEPT !.stack = SubSeq(@, 1, Len(@) - 1),
                         !.wire = IF m.kind \in WritesAfter /\ t.ret = "Ok"
                                  THEN <<Data(TextOf(m))>> \o @ ELSE @,
                         !.hist = IF m.kind \in WritesAfter /\ t.ret = "Ok"
                                  THEN Append(@, MethodCall("write", TextOf(m), "Ok"))
                                  ELSE @,
                         !.calls = Append(@, Trace(IF ran THEN "post" ELSE "unwind",
                                                   m.id))]]
        /\ UNCHANGED <<builderVars, auth, adapterVars, transportVars, historyVars>>

Return(i) ==
    LET t == tasks[i]
        m == t.stack[Len(t.stack)]
        ran == m.kind = "logging" \/ t.ret = "Ok"
    IN  /\ t.pc = "return" /\ t.stack # <<>>
        /\ tasks' = [tasks EXCEPT ![i] =
               [t EXCEPT !.stack = SubSeq(@, 1, Len(@) - 1),
                         !.wire = IF m.kind \in WritesAfter /\ t.ret = "Ok"
                                  THEN Append(@, Data(TextOf(m))) ELSE @,
                         !.hist = IF m.kind \in WritesAfter /\ t.ret = "Ok"
                                  THEN Append(@, MethodCall("write", TextOf(m), "Ok"))
                                  ELSE @,
                         !.calls = Append(@, Trace(IF ran THEN "post" ELSE "unwind",
                                                   m.id))]]
        /\ UNCHANGED <<builderVars, auth, adapterVars, transportVars, historyVars>>

\* A middleware of the application got Ok from Next::run and returns Err
\* from its post-work.
PostFail(i) ==
    LET t == tasks[i]
        m == t.stack[Len(t.stack)]
    IN  /\ t.pc = "return" /\ t.stack # <<>> /\ m.kind = "closure" /\ t.ret = "Ok"
        /\ tasks' = [tasks EXCEPT ![i] =
               [t EXCEPT !.stack = SubSeq(@, 1, Len(@) - 1),
                         !.ret = "Err",
                         !.calls = Append(@, Trace("fail", m.id))]]
        /\ UNCHANGED <<builderVars, auth, adapterVars, transportVars, historyVars>>

\* run_handler's match on the chain's result: Ok(session) is finalized by
\* Session::abort, that is by do_exit of the code the session holds (the
\* call passes none); Err is logged.  Either way the Session is dropped.
FinishAlwaysExits(t) ==
    [t EXCEPT !.pc = "done", !.wire = @ \o DoExit(t.session),
              !.logged = (t.ret = "Err"), !.dropped = TRUE]

Finish(t) ==
    IF t.ret = "Ok"
    THEN [t EXCEPT !.pc = "done", !.wire = @ \o DoExit(t.session), !.dropped = TRUE]
    ELSE [t EXCEPT !.pc = "done", !.logged = TRUE, !.dropped = TRUE]

TaskEndErrStopsServer(i) ==
    LET t == tasks[i]
    IN  /\ t.pc = "return" /\ t.stack = <<>>
        /\ tasks' = [tasks EXCEPT ![i] = Finish(t)]
        /\ serving' = (serving /\ t.ret = "Ok")
        /\ UNCHANGED <<sftpVars, middleware, app, frozen, nwith, addr, keys, shutdown, result,
                       conns, inflight, auth, adapterVars, transportVars, historyVars>>

TaskEnd(i) ==
    LET t == tasks[i]
    IN  /\ t.pc = "return" /\ t.stack = <<>>
        /\ tasks' = [tasks EXCEPT ![i] = Finish(t)]
        /\ UNCHANGED <<builderVars, auth, adapterVars, transportVars, historyVars>>

(***************************************************************************)
(* A server from Server::new().bind(addr) on: built, served, and one        *)
(* promoted session run through its chain.                                 *)
(***************************************************************************)
InitChain ==
    /\ middleware = <<>>
    /\ app = None
    /\ serving = FALSE
    /\ conns = 0
    /\ Bound
    /\ auth = [password |-> FALSE, pubkey |-> FALSE]
    /\ NewClient
    /\ NoHistory
    /\ NoSftp

NextChain ==
    \/ \E k \in MiddlewareKinds : With(k)
    \/ App
    \/ Serve
    \/ \E k \in SessionKinds, u \in Users : Spawn(k, u)
    \/ \E i \in 1..Len(tasks) : Call(i)
    \/ \E i \in 1..Len(tasks) : HandlerWrite(i)
    \/ \E i \in 1..Len(tasks), c \in ExitCodes : HandlerExit(i, c)
    \/ \E i \in 1..Len(tasks), c \in ExitCodes : HandlerAbort(i, c)
    \/ \E i \in 1..Len(tasks), r \in {"Ok", "Err"} : HandlerReturn(i, r)
    \/ \E i \in 1..Len(tasks) : Return(i)
    \/ \E i \in 1..Len(tasks) : TaskEnd(i)

SpecChain == InitChain /\ [][NextChain]_vars

(***************************************************************************)
(* The same, with AccessControl and active_term in the chain and sessions  *)
(* of every kind.                                                          *)
(***************************************************************************)
\* "ls", "rm", "lsx", "ls a", " ls", "" and "ls<TAB>rm"
GateCommands ==
    {<<108, 115>>, <<114, 109>>, <<108, 115, 120>>, <<108, 115, 32, 97>>,
     <<32, 108, 115>>, <<>>, <<108, 115, 9, 114, 109>>}
AllowedLists == {<<Utf8Lossy(<<108, 115>>)>>}
GateKinds == {"Comment", "active_term"}
GateSessionKinds ==
    {KindExec(Utf8Lossy(d)) : d \in GateCommands}
    \cup {KindShell, KindSubsystem("sftp"),
          KindPty("xterm", CHOOSE z \in PtySizes : z.width = 80)}

\* Server::with(AccessControl::new(allowed))
WithAccessControl(allowed) ==
    /\ ~serving /\ result = None /\ nwith < MaxMiddleware
    /\ middleware' = Append(middleware, [kind |-> "AccessControl", id |-> nwith + 1,
                                         allowed |-> allowed])
    /\ nwith' = nwith + 1
    /\ UNCHANGED <<sftpVars, app, serving, frozen, auth, adapterVars, transportVars, tasks,
                   historyVars, serveVars>>

NextGate ==
    \/ \E a \in AllowedLists : WithAccessControl(a)
    \/ \E k \in GateKinds : With(k)
    \/ App
    \/ Serve
    \/ \E k \in GateSessionKinds : Spawn(k, "alice")
    \/ \E i \in 1..Len(tasks) : Call(i)
    \/ \E i \in 1..Len(tasks) : HandlerWrite(i)
    \/ \E i \in 1..Len(tasks) : HandlerReturn(i, "Ok")
    \/ \E i \in 1..Len(tasks) : Return(i)
    \/ \E i \in 1..Len(tasks) : TaskEnd(i)

SpecGate == InitChain /\ [][NextGate]_vars


(***************************************************************************)
(* A promotion seen step by step.  shell_request first spawns the task     *)
(* (run_handler) and only then reports channel-success; the spawned task   *)
(* may be run by another worker of the runtime in between.  The adapter    *)
(* (&mut self) takes no other request until this one has returned.         *)
(***************************************************************************)
Replying == last.res = "Spawned"

\* shell_request up to and including run_handler(handler, app_session)
ShellSpawn(c) ==
    /\ serving /\ authed /\ nreq < MaxRequests /\ c \in 1..opened
    /\ ~Replying
    /\ \/ NoChannel("shell_request", c)
       \/ /\ channel # None
          /\ channel' = None
          /\ pty' = None
          /\ env' = EmptyEnv
          /\ RunHandler(app[1], SessionNew(channel[1], ShellKind(pty),
                                           UserOrUnknown(user), env))
          /\ promo' = Append(promo, Promotion("shell_request", c, <<>>))
          /\ last' = Reply("shell_request", c, "Spawned", None)
          /\ UNCHANGED user
    /\ nreq' = nreq + 1
    /\ UNCHANGED <<builderVars, auth, authed, opened, accepted, rejected, envSince,
                   ptySince>>

\* session.channel_success(channel_id)?; Ok(())
ChannelSuccess ==
    /\ Replying
    /\ last' = [last EXCEPT !.res = "Success"]
    /\ UNCHANGED <<builderVars, auth, channel, user, env, pty, authed, opened, nreq,
                   tasks, historyVars>>

NextRace ==
    \/ \E u \in Users, v \in Verdicts(auth.password) : ~Replying /\ AuthPassword(u, v)
    \/ ~Replying /\ ChannelOpenSession
    \/ \E c \in ChannelIds, t \in Terms, z \in PtySizes : ~Replying /\ PtyRequest(c, t, z)
    \/ \E c \in ChannelIds : ShellSpawn(c)
    \/ ChannelSuccess
    \/ \E i \in 1..Len(tasks) : Call(i)
    \/ \E i \in 1..Len(tasks) : HandlerWrite(i)
    \/ \E i \in 1..Len(tasks) : HandlerExit(i, 0)
    \/ \E i \in 1..Len(tasks) : HandlerReturn(i, "Ok")
    \/ \E i \in 1..Len(tasks) : TaskEnd(i)

SpecRace == Init /\ [][NextRace]_vars


(***************************************************************************)
(* The same, with the layers that may return without running Next or       *)
(* return an error of their own; the handler writes, stores a code and     *)
(* returns either result.                                                  *)
(***************************************************************************)
LayerSessionKinds == {KindShell, KindPty("xterm", CHOOSE z \in PtySizes : z.width = 80)}

NextLayers ==
    \/ \E k \in LayerKinds : With(k)
    \/ App
    \/ Serve
    \/ \E k \in LayerSessionKinds : Spawn(k, "alice")
    \/ \E i \in 1..Len(tasks) : Call(i)
    \/ \E i \in 1..Len(tasks), r \in {"Ok", "Err"} : ShortCircuit(i, r)
    \/ \E i \in 1..Len(tasks) : HandlerWrite(i)
    \/ \E i \in 1..Len(tasks) : HandlerExit(i, 3)
    \/ \E i \in 1..Len(tasks), r \in {"Ok", "Err"} : HandlerReturn(i, r)
    \/ \E i \in 1..Len(tasks) : Return(i)
    \/ \E i \in 1..Len(tasks) : PostFail(i)
    \/ \E i \in 1..Len(tasks) : TaskEnd(i)

SpecLayers == InitChain /\ [][NextLayers]_vars


(***************************************************************************)
(* The channel of a running session: the transport queues the peer's       *)
(* messages on it until the channel closes, and the handler reads them     *)
(* through next() and input().  A read that would block (nothing it        *)
(* returns is queued and the channel is open) is taken once it can return. *)
(***************************************************************************)
EventMsgs == {"Data", "WindowChange", "Signal", "Eof"}

ChannelMsgs ==
    {MsgData(d) : d \in Payloads} \cup
    {MsgWindowChange(z.width, z.height, z.pixel_width, z.pixel_height) : z \in WindowSizes} \cup
    {MsgSignal(g) : g \in Signals} \cup
    {MsgEof, MsgWindowAdjusted}

Deliver(i, m) ==
    LET t == tasks[i]
    IN  /\ ~t.closed /\ ~t.dropped /\ Len(t.recv) < MaxMsgs
        /\ tasks' = [tasks EXCEPT ![i] =
               [t EXCEPT !.rx = Append(@, m), !.recv = Append(@, m)]]
        /\ UNCHANGED <<builderVars, auth, adapterVars, transportVars, historyVars>>

\* The peer closes the channel: its Close is the last message queued.
ChannelClose(i) ==
    LET t == tasks[i]
    IN  /\ ~t.closed /\ ~t.dropped
        /\ tasks' = [tasks EXCEPT ![i] =
               [t EXCEPT !.rx = Append(@, MsgClose), !.recv = Append(@, MsgClose),
                         !.closed = TRUE]]
        /\ UNCHANGED <<builderVars, auth, adapterVars, transportVars, historyVars>>

CanPump(t) == t.closed \/ \E k \in 1..Len(t.rx) : t.rx[k].msg \in EventMsgs

HandlerNext(i) ==
    LET t == tasks[i]
        r == SessionNext(t.session, t.rx)
    IN  /\ t.pc = "handler" /\ Len(t.pumped) < MaxReads /\ CanPump(t)
        /\ tasks' = [tasks EXCEPT ![i] =
               [t EXCEPT !.session = r.session, !.rx = r.rx,
                         !.pumped = Append(@, r.event),
                         !.hist = Append(@, MethodCall("next", <<>>, r.event))]]
        /\ UNCHANGED <<builderVars, auth, adapterVars, transportVars, historyVars>>

HandlerInput(i) ==
    LET t == tasks[i]
        r == SessionInput(t.session, t.rx)
    IN  /\ t.pc = "handler" /\ Len(t.pumped) < MaxReads /\ CanPump(t)
        /\ tasks' = [tasks EXCEPT ![i] =
               [t EXCEPT !.session = r.session, !.rx = r.rx,
                         !.pumped = Append(@, r.event),
                         !.hist = Append(@, MethodCall("input", <<>>, r.data))]]
        /\ UNCHANGED <<builderVars, auth, adapterVars, transportVars, historyVars>>

(***************************************************************************)
(* A served server built with app(handler) alone, one promoted session     *)
(* (shell, with or without a pty) and the traffic on its channel.          *)
(***************************************************************************)
PumpKinds == {KindShell} \cup {KindPty(t, z) : t \in Terms, z \in PtySizes}

InitPump ==
    /\ middleware = <<>>
    /\ app = Some(BuildChain(TheHandler, <<>>))
    /\ serving = TRUE
    /\ conns = 1
    /\ Bound
    /\ auth = [password |-> FALSE, pubkey |-> FALSE]
    /\ NewClient
    /\ NoHistory
    /\ NoSftp

NextPump ==
    \/ \E k \in PumpKinds : Spawn(k, "alice")
    \/ \E i \in 1..Len(tasks) : Call(i)
    \/ \E i \in 1..Len(tasks), m \in ChannelMsgs : Deliver(i, m)
    \/ \E i \in 1..Len(tasks) : ChannelClose(i)
    \/ \E i \in 1..Len(tasks) : HandlerNext(i)
    \/ \E i \in 1..Len(tasks) : HandlerInput(i)
    \/ \E i \in 1..Len(tasks), r \in {"Ok", "Err"} : HandlerReturn(i, r)
    \/ \E i \in 1..Len(tasks) : TaskEnd(i)

SpecPump == InitPump /\ [][NextPump]_vars

(***************************************************************************)
(* The same server and a shell session whose handler reads, writes and     *)
(* sets exit codes while the peer sends data and end-of-file.              *)
(***************************************************************************)
ExitMsgs == {MsgData(<<97>>), MsgEof}

NextExit ==
    \/ Spawn(KindShell, "alice")
    \/ \E i \in 1..Len(tasks) : Call(i)
    \/ \E i \in 1..Len(tasks), m \in ExitMsgs : Deliver(i, m)
    \/ \E i \in 1..Len(tasks) : HandlerNext(i)
    \/ \E i \in 1..Len(tasks) : HandlerWrite(i)
    \/ \E i \in 1..Len(tasks), c \in ExitCodes : HandlerExit(i, c)
    \/ \E i \in 1..Len(tasks), r \in {"Ok", "Err"} : HandlerReturn(i, r)
    \/ \E i \in 1..Len(tasks) : TaskEnd(i)

SpecExit == InitPump /\ [][NextExit]_vars


(***************************************************************************)
(* The Ratatui handler (tui/app.rs) as the application handler of the same *)
(* server: it sizes its terminal from the session's pty size, then draws,  *)
(* writes and reads events until the app quits or the input ends.          *)
(***************************************************************************)
U16Max == 65535

\* Rect::new(x, y, width, height)
RectNew(x, y, w, h) == [x |-> x, y |-> y, width |-> w, height |-> h]

\* impl TryFrom<PtySize> for Rect: u16::try_from of width, then of height
TryFromPtySizeTruncates(val) ==
    [Ok |-> RectNew(0, 0, val.width % (U16Max + 1), val.height % (U16Max + 1))]

TryFromPtySize(val) ==
    IF val.width > U16Max THEN [Err |-> "Int"]
    ELSE IF val.height > U16Max THEN [Err |-> "Int"]
    ELSE [Ok |-> RectNew(0, 0, val.width, val.height)]

IsErr(r) == "Err" \in DOMAIN r

TuiSizes ==
    {[width |-> w, height |-> h, pixel_width |-> 0, pixel_height |-> 0] :
        <<w, h>> \in {<<80, 24>>, <<65535, 65535>>, <<65536, 24>>, <<80, 65536>>,
                      <<65616, 65560>>}}

TuiMsgs ==
    {MsgWindowChange(z.width, z.height, z.pixel_width, z.pixel_height) : z \in TuiSizes}
    \cup {MsgData(<<113>>), MsgEof}

\* Ratatui::call and run_app up to the loop: without a pty size return
\* Ok(session) at once; terminal.resize(pty_size.try_into()?), then the
\* first write.
TuiStart(i) ==
    LET t == tasks[i]
        z == PtySizeOf(t.session)
        r == TryFromPtySize(z[1])
    IN  /\ t.pc = "handler" /\ t.hist = <<>>
        /\ tasks' = [tasks EXCEPT ![i] =
               IF z = None THEN [t EXCEPT !.pc = "return", !.ret = "Ok"]
               ELSE IF IsErr(r)
               THEN [t EXCEPT !.pc = "return", !.ret = "Err",
                              !.hist = Append(@, MethodCall("try_into", z[1], r))]
               ELSE [t EXCEPT !.hist = Append(@, MethodCall("try_into", z[1], r)),
                              !.wire = Append(@, Data("frame"))]]
        /\ UNCHANGED <<builderVars, auth, adapterVars, transportVars, historyVars>>

\* One turn of run_app's loop: draw, write, session.next() and the match
\* on the event; `quit` is what App::handle_key answers to a key.  Leaving
\* the loop ends in session.exit(0).
TuiLoop(i, quit) ==
    LET t == tasks[i]
        n == SessionNext(t.session, t.rx)
        ev == n.event
        drawn == [t EXCEPT !.session = n.session, !.rx = n.rx,
                           !.wire = Append(@, Data("frame")),
                           !.pumped = Append(@, ev),
                           !.hist = Append(@, MethodCall("next", <<>>, ev))]
        left == [drawn EXCEPT !.session.exit_code = Some(0),
                              !.pc = "return", !.ret = "Ok",
                              !.hist = Append(@, MethodCall("exit", 0, "Ok"))]
        r == TryFromPtySize(ev[1].size)
    IN  /\ t.pc = "handler" /\ t.hist # <<>> /\ CanPump(t)
        /\ tasks' = [tasks EXCEPT ![i] =
               IF ev = None THEN left
               ELSE CASE ev[1].event = "Input" -> IF quit THEN left ELSE drawn
                      [] ev[1].event = "Resize" ->
                           IF IsErr(r)
                           THEN [drawn EXCEPT !.pc = "return", !.ret = "Err",
                                    !.hist = Append(@, MethodCall("try_into", ev[1].size, r))]
                           ELSE [drawn EXCEPT
                                    !.hist = Append(@, MethodCall("try_into", ev[1].size, r))]
                      [] ev[1].event = "Eof" -> left
                      [] ev[1].event = "Signal" -> drawn]
        /\ UNCHANGED <<builderVars, auth, adapterVars, transportVars, historyVars>>

TuiKinds == {KindShell} \cup {KindPty("xterm", z) : z \in TuiSizes}

NextTui ==
    \/ \E k \in TuiKinds : Spawn(k, "alice")
    \/ \E i \in 1..Len(tasks) : Call(i)
    \/ \E i \in 1..Len(tasks), m \in TuiMsgs : Deliver(i, m)
    \/ \E i \in 1..Len(tasks) : ChannelClose(i)
    \/ \E i \in 1..Len(tasks) : TuiStart(i)
    \/ \E i \in 1..Len(tasks), quit \in BOOLEAN : TuiLoop(i, quit)
    \/ \E i \in 1..Len(tasks) : TaskEnd(i)

SpecTui == InitPump /\ [][NextTui]_vars


(***************************************************************************)
(* A server from Server::default() on: the builder calls in any order,     *)
(* serve(), the accept loop with its shutdown, and the sessions of the     *)
(* accepted connections, each on its own task.  The tokio runtime polls    *)
(* every spawned task until it completes (TaskRun is weakly fair); serve() *)
(* neither awaits nor cancels them.                                        *)
(***************************************************************************)
\* A promoting request of an accepted connection (its channel handle is
\* numbered by the task it starts).
Promote(u) ==
    /\ conns >= 1 /\ app # None /\ Len(tasks) < MaxChannels
    /\ RunHandler(app[1], SessionNew(Len(tasks) + 1, KindShell, u, EmptyEnv))
    /\ UNCHANGED <<builderVars, auth, adapterVars, transportVars, historyVars>>

InitServe ==
    /\ middleware = <<>>
    /\ app = None
    /\ serving = FALSE
    /\ conns = 0
    /\ addr = None
    /\ keys = 0
    /\ shutdown = FALSE
    /\ result = None
    /\ inflight = {}
    /\ auth = [password |-> FALSE, pubkey |-> FALSE]
    /\ NewClient
    /\ NoHistory
    /\ NoSftp

NextServe ==
    \/ Bind
    \/ HostKey
    \/ ShutdownSignal
    \/ App
    \/ Serve
    \/ Accept
    \/ Shutdown
    \/ AcceptLoopFails
    \/ Promote("alice")
    \/ \E i \in 1..Len(tasks) : Call(i)
    \/ \E i \in 1..Len(tasks) : HandlerExit(i, 3)
    \/ \E i \in 1..Len(tasks), r \in {"Ok", "Err"} : HandlerReturn(i, r)
    \/ \E i \in 1..Len(tasks) : TaskEnd(i)

SpecServe == InitServe /\ [][NextServe]_vars

TaskRun(i) ==
    /\ i \in 1..Len(tasks)
    /\ \/ Call(i)
       \/ \E r \in {"Ok", "Err"} : HandlerReturn(i, r)
       \/ TaskEnd(i)

SpecServeFair == SpecServe /\ \A i \in 1..MaxChannels : WF_vars(TaskRun(i))


(***************************************************************************)
(* Properties                                                              *)
(***************************************************************************)
AuthOps == {"auth_publickey", "auth_password"}
PromotingOps == {"shell_request", "exec_request", "subsystem_request"}
FinalFrames == {"exit-status", "eof", "close"}
Frames(w, kinds) == {k \in 1..Len(w) : w[k].frame \in kinds}

\* C1: a Session and its handler task exist only if an authentication
\* attempt of the connection was accepted (its verifier returned true, or
\* no verifier is configured) and a promoting request created it; after a
\* rejected attempt there is no Session and no task.
C1_SessionOnlyAfterAuthAndPromotion ==
    /\ Len(tasks) = Len(promo)
    /\ \A i \in Tasks : promo[i].op \in PromotingOps
    /\ tasks # <<>> =>
          /\ authed /\ accepted # None
          /\ accepted[1].verdict \/ IsEmpty(auth)
    /\ (last.op \in AuthOps /\ last.res = "Reject") => tasks = <<>>

C1_Witness ==
    /\ tasks # <<>>
    /\ rejected # {}
    /\ accepted # None /\ accepted[1].method = "Password" /\ accepted[1].verdict

\* C2: is_empty() holds iff methods() is empty iff an attempt is accepted
\* although no verifier returned true; with a verifier configured, the
\* accepted attempt is one whose own method's verifier returned true.
VerifierPresent(a, method) == IF method = "Password" THEN a.password ELSE a.pubkey

C2_EmptyIffNoMethodsIffAnonymous ==
    /\ IsEmpty(auth) <=> (Methods(auth) = {})
    /\ IsEmpty(auth) <=> AuthPasswordDecision(auth, FALSE).accept
    /\ IsEmpty(auth) <=> AuthPublickeyDecision(auth, FALSE).accept
    /\ (accepted # None /\ ~IsEmpty(auth)) =>
          (accepted[1].verdict /\ VerifierPresent(auth, accepted[1].method))
    /\ (last.op \in AuthOps /\ last.res = "Accept" /\ ~accepted[1].verdict) => IsEmpty(auth)

C2_Witness ==
    /\ last.op \in AuthOps /\ last.res = "Accept"
    /\ IsEmpty(auth) /\ ~accepted[1].verdict

\* C3: with the middlewares M1..Mn that app() consumed, a session whose
\* chain returned Ok saw M1-pre, ..., Mn-pre, H, Mn-post, ..., M1-post, and
\* while no layer has erred the calls so far are a prefix of that order.
ExpectedCalls(ids) ==
    [k \in 1..Len(ids) |-> Trace("pre", ids[k])]
    \o <<Trace("H", 0)>>
    \o [k \in 1..Len(ids) |-> Trace("post", ids[Len(ids) + 1 - k])]

IsPrefix(a, b) == Len(a) <= Len(b) /\ a = SubSeq(b, 1, Len(a))

C3_MiddlewareOrder ==
    \A i \in Tasks :
        LET t == tasks[i]
        IN  /\ t.ret # "Err" => IsPrefix(t.calls, ExpectedCalls(frozen))
            /\ (t.pc = "done" /\ t.ret = "Ok") => t.calls = ExpectedCalls(frozen)

C3_Witness ==
    \E i \in Tasks :
        /\ tasks[i].pc = "done" /\ tasks[i].ret = "Ok"
        /\ Len(frozen) >= 2
        /\ Len(tasks[i].calls) = 2 * Len(frozen) + 1

\* C4: when the chain returned Ok(session) with code c stored, what the
\* task sent last on the channel is exit-status c, end-of-file, close, in
\* this order; unless a layer called abort, none of the three is on the
\* channel before the chain has returned, nor before those last three.
C4_FinalizeWithCode ==
    \A i \in Tasks :
        LET t == tasks[i]
            n == Len(t.wire)
        IN  /\ (t.pc = "done" /\ t.ret = "Ok" /\ t.session.exit_code # None) =>
                  /\ n >= 3
                  /\ SubSeq(t.wire, n - 2, n) =
                        <<ExitStatus(t.session.exit_code[1]), Eof, Close>>
                  /\ ~t.aborted => Frames(t.wire, FinalFrames) = (n - 2)..n
            /\ (t.pc # "done" /\ ~t.aborted) => Frames(t.wire, FinalFrames) = {}

C4_Witness ==
    \E i \in Tasks :
        LET t == tasks[i]
        IN  /\ t.pc = "done" /\ t.ret = "Ok" /\ ~t.aborted
            /\ t.session.exit_code = Some(3)
            /\ t.wire = <<Data("out"), Data(CommentText), ExitStatus(3), Eof, Close>>

\* C5: when the chain returned Ok(session) with no code stored, the task
\* sends no exit-status but still end-of-file and then close.
C5_FinalizeWithoutCode ==
    \A i \in Tasks :
        LET t == tasks[i]
            n == Len(t.wire)
        IN  (t.pc = "done" /\ t.ret = "Ok" /\ t.session.exit_code = None) =>
               /\ Frames(t.wire, {"exit-status"}) = {}
               /\ n >= 2 /\ SubSeq(t.wire, n - 1, n) = <<Eof, Close>>

\* C6 as claimed: once the chain returns Err, no exit-status is ever on
\* that session's channel.
C6_NoExitStatusOnErr ==
    \A i \in Tasks :
        tasks[i].ret = "Err" => Frames(tasks[i].wire, {"exit-status"}) = {}

\* C6, amended: a task whose chain returned Err ends by logging the error
\* and dropping the Session, and sends nothing while doing so; an
\* exit-status, end-of-file or close is on the channel of such a session
\* only if a layer called abort before the error.
C6_ErrOnlyLogged ==
    /\ [](\A i \in Tasks :
            tasks[i].ret = "Err" =>
               /\ tasks[i].pc = "done" => (tasks[i].logged /\ tasks[i].dropped)
               /\ ~tasks[i].aborted => Frames(tasks[i].wire, FinalFrames) = {})
    /\ [][\A i \in Tasks :
            (tasks[i].ret = "Err" /\ tasks[i].pc = "return" /\ tasks[i].stack = <<>>
             /\ tasks'[i].pc = "done") => tasks'[i].wire = tasks[i].wire]_vars

C6_Witness ==
    \E i \in Tasks :
        /\ tasks[i].pc = "done" /\ tasks[i].ret = "Err" /\ tasks[i].logged
        /\ tasks[i].session.exit_code # None /\ ~tasks[i].aborted
        /\ tasks[i].wire = <<Data("out")>>

\* C7: the adapter's recorded user is the user of the accepted attempt and
\* of no rejected one; every Session's user() is that user; "unknown"
\* stands in exactly when no user is recorded.
C7_UserIsAcceptedUser ==
    /\ user = IF accepted = None THEN None ELSE Some(accepted[1].user)
    /\ (UserOrUnknown(user) = "unknown") <=> (user = None)
    /\ \A i \in Tasks :
          /\ accepted # None
          /\ tasks[i].session.user = accepted[1].user
          /\ promo[i].user = Some(accepted[1].user)

C7_Witness ==
    /\ tasks # <<>>
    /\ "alice" \in rejected
    /\ tasks[1].session.user = "bob"

\* C8: env() of every Session equals the env-requests received between
\* the open of the channel its promoting request names and that request.
C8_EnvEqualsWindow ==
    \A i \in Tasks : tasks[i].session.env = promo[i].window

\* C9: the kind built at promotion: shell gives Pty of the pending pty or
\* else Shell; exec gives Pty of the pending pty (command() is then None)
\* or else Exec with the lossily decoded command; subsystem gives
\* Subsystem{name}.
\* "ls" decodes to itself, 0xFF and the cut-short 0xC3 to U+FFFD.
LossyExpected(d) ==
    CASE d = <<108, 115>> -> <<108, 115>>
      [] d = <<255>> -> <<65533>>
      [] d = <<108, 195>> -> <<108, 65533>>

C9_KindAtPromotion ==
    \A i \in Tasks :
        LET s == tasks[i].session
            r == promo[i]
            pending == KindPty(r.pty[1][1], r.pty[1][2])
        IN  CASE r.op = "shell_request" ->
                    s.kind = IF r.pty # None THEN pending ELSE KindShell
              [] r.op = "exec_request" ->
                    IF r.pty # None
                    THEN s.kind = pending /\ Command(s) = None
                    ELSE s.kind = KindExec(LossyExpected(r.arg))
                         /\ Command(s) = Some(LossyExpected(r.arg))
              [] r.op = "subsystem_request" ->
                    s.kind = KindSubsystem(r.arg)

C9_Witness ==
    /\ \E i \in Tasks : promo[i].op = "exec_request" /\ promo[i].pty # None
                        /\ tasks[i].session.kind.tag = "Pty"
    /\ \E i \in Tasks : promo[i].op = "exec_request" /\ promo[i].pty = None
                        /\ tasks[i].session.kind = KindExec(<<108, 65533>>)

\* C10: a promoting request that finds no stored channel is answered with
\* a Protocol error, creates no Session and no task, and leaves the pending
\* env, the pending pty and the recorded user as they were.
C10_NoChannelIsProtocolError ==
    [][(nreq' = nreq + 1 /\ last'.op \in PromotingOps /\ channel = None) =>
          /\ last'.res = "Protocol"
          /\ tasks' = tasks
          /\ env' = env /\ pty' = pty /\ user' = user /\ channel' = None]_vars

C10_Witness ==
    /\ last.op \in PromotingOps /\ last.res = "Protocol"
    /\ tasks # <<>>
    /\ env # EmptyEnv /\ pty # None /\ user # None

\* C11 as claimed: an auth_publickey attempt that meets no public-key
\* verifier while a password verifier is configured is rejected with
\* proceed_with_methods absent.
C11_PubkeyOtherwiseAdvertisesNothing ==
    (last.op = "auth_publickey" /\ ~auth.pubkey /\ ~IsEmpty(auth)) =>
        (last.res = "Reject" /\ last.proceed_with_methods = None)

\* C12: with a public-key verifier configured, an auth_publickey attempt
\* it refuses is rejected with proceed_with_methods = {Password} and
\* records no user; one it admits is accepted and its user is recorded.
C12_PubkeyVerifierDecides ==
    /\ \A a \in AuthConfigs : a.pubkey =>
          /\ AuthPublickeyDecision(a, FALSE) = AuthReject(Some({"Password"}))
          /\ AuthPublickeyDecision(a, TRUE) = AuthAccept
    /\ (last.op = "auth_publickey" /\ auth.pubkey) =>
          IF last.attempt.verdict
          THEN /\ last.res = "Accept" /\ authed
               /\ user = Some(last.attempt.user)
          ELSE /\ last.res = "Reject" /\ ~authed
               /\ last.proceed_with_methods = Some({"Password"})
               /\ user = None

C12_Witness ==
    /\ last.op = "auth_publickey" /\ auth.pubkey /\ auth.password
    /\ last.res = "Reject" /\ ~last.attempt.verdict
    /\ nreq >= 2 /\ Cardinality(rejected) = 2

\* C13: an auth_password attempt is accepted iff the password verifier
\* admitted it or no verifier at all is configured; every rejection (the
\* verifier refused, or only a public-key verifier is configured) has
\* proceed_with_methods absent and records no user.
C13_PasswordDecision ==
    last.op = "auth_password" =>
        /\ (last.res = "Accept") <=>
              ((auth.password /\ last.attempt.verdict) \/ IsEmpty(auth))
        /\ (last.res = "Reject") <=>
              ((auth.password /\ ~last.attempt.verdict)
               \/ (~auth.password /\ auth.pubkey))
        /\ last.res = "Reject" =>
              (last.proceed_with_methods = None /\ user = None /\ ~authed)
        /\ last.res = "Accept" => user = Some(last.attempt.user)

C13_Witness ==
    /\ last.op = "auth_password" /\ last.res = "Reject"
    /\ ~auth.password /\ auth.pubkey
    /\ last.proceed_with_methods = None

Last(q) == q[Len(q)]
Stores(h) == SelectSeq(h, LAMBDA c : c.call \in {"exit", "abort"})
Called(t, u) == Len(u.hist) = Len(t.hist) + 1
IsCall(c, name, arg) == c.call = name /\ c.arg = arg

\* C14 as claimed: once a Session's exit_code is set, no step changes it.
C14_ExitCodeSetAtMostOnce ==
    [][\A i \in Tasks :
          ExitCode(tasks[i].session) # None =>
             ExitCode(tasks'[i].session) = ExitCode(tasks[i].session)]_vars

\* C14, amended: exit_code is absent until the first exit or abort and is
\* never cleared after it; it always is the code of the latest exit or
\* abort call, each of which overwrites the code stored before.
C14_ExitCodeIsLatestStored ==
    \A i \in Tasks :
        LET st == Stores(tasks[i].hist)
        IN  ExitCode(tasks[i].session) =
               IF st = <<>> THEN None ELSE Some(Last(st).arg)

C14_Witness ==
    \E i \in Tasks :
        /\ Len(tasks[i].hist) >= 2
        /\ IsCall(tasks[i].hist[1], "exit", 0)
        /\ IsCall(tasks[i].hist[2], "exit", 3)
        /\ ExitCode(tasks[i].session) = Some(3)

\* C15 as claimed: exit(c) leaves exit_code() = Some(c) and will_exit()
\* true, and after an exit the stored code changes only in a later exit.
C15_OnlyExitChangesCode ==
    [][\A i \in Tasks :
          LET t == tasks[i]
              u == tasks'[i]
          IN  /\ (Called(t, u) /\ Last(u.hist).call = "exit") =>
                    (ExitCode(u.session) = Some(Last(u.hist).arg) /\ WillExit(u.session))
              /\ ((\E k \in 1..Len(t.hist) : t.hist[k].call = "exit")
                  /\ ExitCode(u.session) # ExitCode(t.session)) =>
                    (Called(t, u) /\ Last(u.hist).call = "exit")]_vars

\* C15, amended: exit(c) leaves exit_code() = Some(c) and will_exit()
\* true; afterwards the stored code changes only in a later exit(c') or
\* abort(c'), which leaves Some(c'), and will_exit() stays true.
C15_OnlyExitOrAbortChangesCode ==
    [][\A i \in Tasks :
          LET t == tasks[i]
              u == tasks'[i]
          IN  /\ (Called(t, u) /\ Last(u.hist).call \in {"exit", "abort"}) =>
                    (ExitCode(u.session) = Some(Last(u.hist).arg) /\ WillExit(u.session))
              /\ ((\E k \in 1..Len(t.hist) : t.hist[k].call = "exit")
                  /\ ExitCode(u.session) # ExitCode(t.session)) =>
                    (Called(t, u) /\ Last(u.hist).call \in {"exit", "abort"})
              /\ WillExit(t.session) => WillExit(u.session)]_vars

C15_Witness ==
    \E i \in Tasks :
        /\ Len(tasks[i].hist) = 3
        /\ IsCall(tasks[i].hist[1], "exit", 0)
        /\ IsCall(tasks[i].hist[2], "abort", 3)
        /\ IsCall(tasks[i].hist[3], "write", CommentText)
        /\ ExitCode(tasks[i].session) = Some(3)

\* The event a message stands for, and the events of a message sequence.
EventOf(m) ==
    CASE m.msg = "Data" -> EventInput(m.data)
      [] m.msg = "WindowChange" ->
            EventResize([width |-> m.col_width, height |-> m.row_height,
                         pixel_width |-> m.pix_width, pixel_height |-> m.pix_height])
      [] m.msg = "Signal" -> EventSignal(m.signal)
      [] m.msg = "Eof" -> EventEof

EventsOf(q) ==
    LET e == SelectSeq(q, LAMBDA m : m.msg \in EventMsgs)
    IN  [k \in 1..Len(e) |-> EventOf(e[k])]

FirstEvent(q) == IF EventsOf(q) = <<>> THEN None ELSE Some(EventsOf(q)[1])

\* The messages of a task's channel that wait() has handed over.
Consumed(t) == SubSeq(t.recv, 1, Len(t.recv) - Len(t.rx))

\* The values of the Some entries of a sequence of Options.
Somes(q) ==
    LET e == SelectSeq(q, LAMBDA o : o # None)
    IN  [k \in 1..Len(e) |-> e[k][1]]

\* C16: exit(code) stores the code and nothing else: it sends no frame and
\* leaves the channel's queue alone; until the chain has returned no
\* exit-status, end-of-file or close is on the channel, a write after the
\* exit still sends its data and a next() still returns the next event.
C16_ExitOnlyStores ==
    /\ [](\A i \in Tasks :
            tasks[i].pc # "done" => Frames(tasks[i].wire, FinalFrames) = {})
    /\ [][\A i \in Tasks :
            LET t == tasks[i]
                u == tasks'[i]
                c == Last(u.hist)
            IN  /\ (Called(t, u) /\ c.call = "exit") =>
                      /\ u.wire = t.wire /\ u.rx = t.rx /\ u.pc = "handler"
                      /\ u.session = [t.session EXCEPT !.exit_code = Some(c.arg)]
                /\ (WillExit(t.session) /\ Called(t, u) /\ c.call = "write") =>
                      (u.wire = Append(t.wire, Data(c.arg)) /\ c.ret = "Ok")
                /\ (WillExit(t.session) /\ Called(t, u) /\ c.call = "next") =>
                      (c.ret = FirstEvent(t.rx) /\ c.ret # None)]_vars

C16_Witness ==
    \E i \in Tasks :
        LET t == tasks[i]
        IN  /\ t.pc = "handler" /\ Len(t.hist) = 3
            /\ IsCall(t.hist[1], "exit", 3)
            /\ t.hist[2].call = "write"
            /\ t.hist[3].call = "next" /\ t.hist[3].ret = Some(EventInput(<<97>>))
            /\ t.wire = <<Data("out")>>

\* C17: a handler that stores one code c and returns Ok leaves exit_code
\* Some(c) and has exit-status c, end-of-file, close as the only such
\* frames on the channel, whether it stored c by abort(c) or by exit(c).
C17_AbortSameAsExitThenFinalize ==
    \A i \in Tasks :
        LET t == tasks[i]
            st == Stores(t.hist)
        IN  (t.pc = "done" /\ t.ret = "Ok" /\ Len(st) = 1) =>
               /\ SelectSeq(t.wire, LAMBDA f : f.frame \in FinalFrames) =
                     <<ExitStatus(st[1].arg), Eof, Close>>
               /\ ExitCode(t.session) = Some(st[1].arg)

\* C18: a Pty session stays a Pty session with its term; its size changes
\* only in a read that returns Resize(s'), to s'; so once a window-change
\* was handed over, pty_size() is the size of the latest one.
IsResize(o) == o # None /\ o[1].event = "Resize"

C18_PtySizeFollowsResize ==
    /\ [](\A i \in Tasks :
            LET t == tasks[i]
                wc == SelectSeq(Consumed(t), LAMBDA m : m.msg = "WindowChange")
                rs == SelectSeq(t.pumped, IsResize)
                latest == [width |-> Last(wc).col_width, height |-> Last(wc).row_height,
                           pixel_width |-> Last(wc).pix_width,
                           pixel_height |-> Last(wc).pix_height]
            IN  (t.session.kind.tag = "Pty" /\ wc # <<>>) =>
                   /\ PtySizeOf(t.session) = Some(latest)
                   /\ Last(rs) = Some(EventResize(latest)))
    /\ [][\A i \in Tasks :
            LET t == tasks[i]
                u == tasks'[i]
            IN  t.session.kind.tag = "Pty" =>
                   /\ u.session.kind.tag = "Pty"
                   /\ Term(u.session) = Term(t.session)
                   /\ PtySizeOf(u.session) # PtySizeOf(t.session) =>
                         /\ Len(u.pumped) = Len(t.pumped) + 1
                         /\ IsResize(Last(u.pumped))
                         /\ Last(u.pumped)[1].size = PtySizeOf(u.session)[1]]_vars

C18_Witness ==
    \E i \in Tasks :
        LET t == tasks[i]
        IN  /\ t.session.kind = KindPty("xterm", [width |-> 120, height |-> 30,
                                     pixel_width |-> 960, pixel_height |-> 480])
            /\ Len(t.pumped) = 3 /\ \A k \in 1..2 : IsResize(t.pumped[k])
            /\ t.pumped[1][1].size.width = 100
            /\ \E k \in 1..Len(t.hist) : t.hist[k].call = "input"

\* C19: the events next() has returned are the events of the messages
\* handed over so far, in their order (data, window-change, signal and
\* end-of-file; anything else is skipped); next() returns None only once
\* the channel is closed and drained, and from then on always.
C19_EventsInProtocolOrder ==
    \A i \in Tasks :
        LET t == tasks[i]
        IN  /\ Somes(t.pumped) = EventsOf(Consumed(t))
            /\ \A k \in 1..Len(t.pumped) :
                  t.pumped[k] = None =>
                     /\ t.closed /\ t.rx = <<>>
                     /\ Last(t.recv) = MsgClose
                     /\ \A j \in k..Len(t.pumped) : t.pumped[j] = None

C19_Witness ==
    \E i \in Tasks :
        LET t == tasks[i]
        IN  /\ Len(t.recv) = 4 /\ t.recv[2].msg = "WindowAdjusted"
            /\ Len(t.pumped) = 3
            /\ t.pumped[1] = Some(EventInput(<<98>>))
            /\ t.pumped[2] = Some(EventEof)
            /\ t.pumped[3] = None

\* C20 as claimed: input() returns None only at the end of the stream
\* (a non-input event is dropped and the read goes on; the peer's
\* end-of-file is let count as the end of the stream here), and a handler
\* reading with input() alone gets the payloads of the data messages
\* handed over, in order.
Reads(t) == SelectSeq(t.hist, LAMBDA c : c.call \in {"next", "input"})

C20_InputFiltersToData ==
    \A i \in Tasks :
        LET t == tasks[i]
            rd == Reads(t)
            data == SelectSeq(Consumed(t), LAMBDA m : m.msg = "Data")
        IN  /\ \A k \in 1..Len(rd) :
                  (rd[k].call = "input" /\ rd[k].ret = None) =>
                     (t.pumped[k] = None \/ t.pumped[k] = Some(EventEof))
            /\ (\A k \in 1..Len(rd) : rd[k].call = "input") =>
                  Somes([k \in 1..Len(rd) |-> rd[k].ret]) =
                     [k \in 1..Len(data) |-> data[k].data]

ServeOk == Some([Ok |-> <<>>])
IsConfigError(r) == r # None /\ "Err" \in DOMAIN r[1] /\ r[1].Err.err = "Config"
FinalsOf(w) == SelectSeq(w, LAMBDA f : f.frame \in FinalFrames)

\* The middlewares of a chain, outermost first.
RECURSIVE ChainLayers(_)
ChainLayers(c) ==
    IF IsMiddlewareHandler(c) THEN <<c.middleware>> \o ChainLayers(c.next) ELSE <<>>

Ids(ms) == [k \in 1..Len(ms) |-> ms[k].id]
Count(q, x) == Cardinality({k \in 1..Len(q) : q[k] = x})
Changed(i) == tasks'[i] # tasks[i]

\* C21: once a layer has returned Err the result stays Err all the way up:
\* each enclosing middleware is left in turn, innermost first, and none of
\* them writes (only logging's post-work, which matches on the result,
\* still runs); nothing is sent and the session is not touched; at the top
\* the task logs the error, sends nothing and drops the Session.
C21_ErrSkipsPostWork ==
    /\ [][\A i \in Tasks :
            (tasks[i].ret = "Err" /\ Changed(i)) =>
               LET t == tasks[i]
                   u == tasks'[i]
               IN  /\ t.pc = "return" /\ u.ret = "Err"
                   /\ u.wire = t.wire /\ u.session = t.session /\ u.hist = t.hist
                   /\ IF t.stack # <<>>
                      THEN LET m == t.stack[Len(t.stack)]
                           IN  /\ u.pc = "return"
                               /\ u.stack = SubSeq(t.stack, 1, Len(t.stack) - 1)
                               /\ u.calls = Append(t.calls,
                                     Trace(IF m.kind = "logging" THEN "post" ELSE "unwind",
                                           m.id))
                      ELSE u.pc = "done" /\ u.logged /\ u.dropped /\ u.calls = t.calls]_vars
    /\ [](\A i \in Tasks :
            (tasks[i].pc = "done" /\ tasks[i].ret = "Err") =>
               (tasks[i].logged /\ tasks[i].dropped /\ tasks[i].stack = <<>>))

C21_Witness ==
    \E i \in Tasks :
        LET t == tasks[i]
            ms == ChainLayers(app[1])
        IN  /\ t.pc = "done" /\ t.ret = "Err" /\ t.logged
            /\ Len(ms) = 2 /\ ms[1].kind \in WritesAfter /\ ms[2].kind = "closure"
            /\ t.calls = <<Trace("pre", ms[1].id), Trace("pre", ms[2].id), Trace("H", 0),
                           Trace("fail", ms[2].id), Trace("unwind", ms[1].id)>>
            /\ t.session.exit_code = Some(3)
            /\ t.wire = <<Data("out")>>

ShortEvents == {"shortOk", "shortErr"}
ReturnEvents == {"post", "unwind", "fail"}

HandlerWrites(t) == Cardinality({k \in 1..Len(t.hist) : IsCall(t.hist[k], "write", "out")})
ExitCalls(t) == {k \in 1..Len(t.hist) : t.hist[k].call = "exit"}

\* C23: for a chain with a Comment around a handler that wrote, called
\* exit(c) last of its exits, no layer having aborted, and that returned
\* Ok: the channel carries the handler's writes, then the text of each
\* Comment, then exit-status c, end-of-file and close, and nothing else.
C23_CommentAfterOutputBeforeExit ==
    \A i \in Tasks :
        LET t == tasks[i]
            cs == Count([k \in 1..Len(ChainLayers(app[1])) |->
                            ChainLayers(app[1])[k].kind], "Comment")
            w == HandlerWrites(t)
        IN  (t.pc = "done" /\ t.ret = "Ok" /\ ~t.aborted /\ ExitCalls(t) # {} /\ cs >= 1) =>
               LET c == t.hist[CHOOSE k \in ExitCalls(t) :
                                  \A j \in ExitCalls(t) : j <= k].arg
               IN  t.wire = [k \in 1..w |-> Data("out")]
                            \o [k \in 1..cs |-> Data(CommentText)]
                            \o <<ExitStatus(c), Eof, Close>>

C23_Witness ==
    \E i \in Tasks :
        LET t == tasks[i]
            ms == ChainLayers(app[1])
        IN  /\ t.pc = "done" /\ t.ret = "Ok"
            /\ Len(ms) = 1 /\ ms[1].kind = "Comment"
            /\ t.hist = <<MethodCall("write", "out", "Ok"), MethodCall("exit", 0, "Ok"),
                          MethodCall("write", CommentText, "Ok")>>
            /\ t.wire = <<Data("out"), Data(CommentText), ExitStatus(0), Eof, Close>>

\* C24 as claimed: the chain an app() call assembles holds every
\* middleware given to with() before it, in the order of the with() calls.
C24_ChainHoldsAllEarlierWith ==
    [][app' # app => Ids(ChainLayers(app'[1])) = [k \in 1..nwith |-> k]]_vars

C26_ServeValidates ==
    /\ [][(~serving /\ result = None /\ (serving' \/ result' # None)) =>
            IF addr = None \/ keys = 0 \/ app = None
            THEN IsConfigError(result') /\ ~serving' /\ conns' = 0 /\ tasks' = <<>>
            ELSE serving' /\ result' = None]_vars
    /\ []((serving \/ conns > 0 \/ tasks # <<>>) =>
            (addr # None /\ keys >= 1 /\ app # None))
    /\ [](IsConfigError(result) => (conns = 0 /\ tasks = <<>> /\ ~serving))

C26_Witness ==
    /\ IsConfigError(result) /\ result[1].Err.msg = "No host keys specified"
    /\ addr # None /\ app # None /\ keys = 0 /\ shutdown

\* C30: the step in which a task ends on its chain's Err changes nothing
\* but that task: the accept loop, serve()'s result, the connections and
\* every other task stay as they are; and every task whose chain returned
\* Ok with a code is finalized with that code, whatever the others did.
C30_ErrStaysInItsSession ==
    /\ [][\A i \in Tasks :
            (tasks[i].pc # "done" /\ tasks'[i].pc = "done" /\ tasks'[i].ret = "Err") =>
               /\ serving' = serving /\ result' = result /\ conns' = conns
               /\ Len(tasks') = Len(tasks)
               /\ \A j \in Tasks \ {i} : tasks'[j] = tasks[j]]_vars
    /\ [](\A i \in Tasks :
            (tasks[i].pc = "done" /\ tasks[i].ret = "Ok"
             /\ ExitCode(tasks[i].session) # None) =>
               FinalsOf(tasks[i].wire) =
                  <<ExitStatus(ExitCode(tasks[i].session)[1]), Eof, Close>>)

C30_Witness ==
    /\ serving /\ result = None /\ conns = 2 /\ Len(tasks) = 2
    /\ tasks[1].pc = "done" /\ tasks[1].ret = "Err" /\ tasks[1].logged
    /\ tasks[2].pc = "done" /\ tasks[2].ret = "Ok"
    /\ tasks[2].wire = <<ExitStatus(3), Eof, Close>>

\* A step that promotes: a task, and with it a Session, is added.
Promotes == Len(tasks') = Len(tasks) + 1
Held(i) == tasks[i].session.channel

\* C27: no two Sessions hold the same channel handle and the handle in the
\* adapter's pending slot is held by no Session; a promotion moves the
\* slot's handle into the new Session and leaves the slot empty, and no
\* step changes the handle an existing Session holds.
C27_ChannelHasOneOwner ==
    /\ [](\A i, j \in Tasks : i # j => Held(i) # Held(j))
    /\ [](channel # None => \A i \in Tasks : Held(i) # channel[1])
    /\ [][Promotes => (/\ channel # None
                       /\ tasks'[Len(tasks')].session.channel = channel[1]
                       /\ channel' = None)]_vars
    /\ [][\A i \in Tasks : tasks'[i].session.channel = Held(i)]_vars

C27_Witness ==
    /\ Len(tasks) = 2 /\ Held(1) = 1 /\ Held(2) = 2
    /\ channel = None /\ last.res = "Success"

\* C28: a promotion gives the adapter's env to the new Session and leaves
\* the adapter's env empty; apart from that only an env-request changes
\* the adapter's env, by inserting its variable; and no step changes the
\* env of an existing Session.  So what a Session holds is never seen by a
\* later one, unless the variable is requested again.
C28_EnvMovedAtPromotion ==
    /\ [][Promotes => (/\ tasks'[Len(tasks')].session.env = env
                       /\ env' = EmptyEnv)]_vars
    /\ [][(env' # env /\ ~Promotes) =>
            (/\ last'.op = "env_request"
             /\ \E n \in EnvNames, v \in EnvValues : env' = EnvInsert(env, n, v))]_vars
    /\ [][\A i \in Tasks : tasks'[i].session.env = tasks[i].session.env]_vars
    /\ [](last.op \in PromotingOps /\ last.res = "Success" => env = EmptyEnv)

C28_Witness ==
    /\ Len(tasks) = 1 /\ tasks[1].session.env # EmptyEnv
    /\ last.op = "env_request"
    /\ env # EmptyEnv /\ env # tasks[1].session.env

\* C29: the request that promotes is answered channel-success in the step
\* that spawns the task, the task not having run at all; and while tasks
\* that never return exist, the adapter still takes an env-request, a
\* pty-request and a channel-open.
C29_HandlerNotAwaited ==
    /\ [][Promotes => (/\ last'.res = "Success" /\ last'.op \in PromotingOps
                       /\ tasks'[Len(tasks')].pc = "call"
                       /\ tasks'[Len(tasks')].calls = <<>>
                       /\ tasks'[Len(tasks')].wire = <<>>)]_vars
    /\ []((tasks # <<>> /\ nreq < MaxRequests /\ \A i \in Tasks : tasks[i].pc = "call") =>
            (/\ \A n \in EnvNames, v \in EnvValues : ENABLED EnvRequest(1, n, v)
             /\ \A t \in Terms, z \in PtySizes : ENABLED PtyRequest(1, t, z)
             /\ opened < MaxChannels => ENABLED ChannelOpenSession))

C29_Witness ==
    /\ Len(tasks) = 2 /\ \A i \in Tasks : tasks[i].pc = "call" /\ ~tasks[i].dropped
    /\ last.op = "exec_request" /\ last.res = "Success" /\ promo[1].op = "shell_request"

\* C31 as claimed: a Session promoted with no pty-request pending has the
\* terminal size 80 x 24 cells and 0 x 0 pixels.
C31_PtySizeDefaults ==
    \A i \in Tasks :
        promo[i].pty = None =>
           PtySizeOf(tasks[i].session) =
              Some([width |-> 80, height |-> 24, pixel_width |-> 0, pixel_height |-> 0])

\* C32 as claimed: on the channel of every session exit-status, end-of-file
\* and close are each sent at most once.
C32_FinalFramesAtMostOnce ==
    \A i \in Tasks :
        \A f \in FinalFrames : Cardinality(Frames(tasks[i].wire, {f})) <= 1

\* C33 as claimed: the Session a promoting request creates holds the
\* handle of the channel that request names.
C33_SessionOwnsNamedChannel ==
    \A i \in Tasks : tasks[i].session.channel = promo[i].chan

\* C34 as claimed: no pty is pending after a successful promotion, and a
\* Session of kind Pty had a pty-request for the channel its promoting
\* request names, after that channel's open.
C34_PtyNeverCarriesOver ==
    /\ (last.op \in PromotingOps /\ last.res = "Success") => pty = None
    /\ \A i \in Tasks :
          tasks[i].session.kind.tag = "Pty" => promo[i].ptyWindow # None

PayloadFrames == {"data", "extended-data", "exit-status"}

\* C35 as claimed: once close is on a session's channel, no step of the
\* chain (any step before the task's own finalization) puts a data,
\* extended-data or exit-status frame on it.
C35_NothingWrittenAfterClose ==
    [][\A i \in Tasks :
         (Frames(tasks[i].wire, {"close"}) # {} /\ tasks'[i].pc # "done") =>
            Frames(tasks'[i].wire, PayloadFrames) = Frames(tasks[i].wire, PayloadFrames)]_vars

\* C36 as claimed: while the promoting request has spawned the task and
\* not yet reported channel-success, the task has put nothing on the
\* channel.
C36_SuccessBeforeOutput ==
    Replying => tasks[Len(tasks)].wire = <<>>

\* The step in which the middleware of the given kind is called.
GateStep(i, kind) ==
    /\ tasks[i].pc = "call" /\ IsMiddlewareHandler(tasks[i].cur)
    /\ tasks[i].cur.middleware.kind = kind
    /\ Changed(i)

\* The task after a middleware has run Next with the session as it got it.
PassedOn(t, u) ==
    /\ u.pc = "call" /\ u.cur = t.cur.next
    /\ u.session = t.session /\ u.wire = t.wire /\ u.hist = t.hist
    /\ u.stack = Append(t.stack, t.cur.middleware)
    /\ u.calls = Append(t.calls, Trace("pre", t.cur.middleware.id))

\* The task after a middleware has returned Ok without running Next.
TurnedAway(t, u) ==
    /\ u.pc = "return" /\ u.ret = "Ok"
    /\ u.cur = t.cur /\ u.stack = t.stack
    /\ u.calls = Append(t.calls, Trace("shortOk", t.cur.middleware.id))

\* After a layer turned the session away only layers outside it are left.
InnerNeverInvoked ==
    \A i \in Tasks :
        \A p \in 1..Len(tasks[i].calls) :
            tasks[i].calls[p].ev = "shortOk" =>
               \A q \in (p + 1)..Len(tasks[i].calls) :
                   tasks[i].calls[q].ev \in ReturnEvents

\* The first whitespace-separated token of each command of GateCommands.
ExpectedToken(c) ==
    CASE c = <<108, 115>> -> <<108, 115>>
      [] c = <<114, 109>> -> <<114, 109>>
      [] c = <<108, 115, 120>> -> <<108, 115, 120>>
      [] c = <<108, 115, 32, 97>> -> <<108, 115>>
      [] c = <<32, 108, 115>> -> <<108, 115>>
      [] c = <<>> -> <<>>
      [] c = <<108, 115, 9, 114, 109>> -> <<108, 115>>

\* C37: AccessControl, called with an exec session whose command's first
\* token is not in its list, returns Ok without running Next, having
\* written "Command not allowed" to stderr and stored exit code 1 and
\* nothing else; with any other session it runs Next with the session as
\* it is; and after a refusal no inner layer and no handler is called.
C37_AccessControlGate ==
    /\ [][\A i \in Tasks :
            GateStep(i, "AccessControl") =>
               LET t == tasks[i]
                   u == tasks'[i]
                   m == t.cur.middleware
                   c == Command(t.session)
               IN  IF c # None /\ \A k \in 1..Len(m.allowed) :
                                      m.allowed[k] # ExpectedToken(c[1])
                   THEN /\ TurnedAway(t, u)
                        /\ u.session = [t.session EXCEPT !.exit_code = Some(1)]
                        /\ u.wire = Append(t.wire,
                              ExtendedData(1, <<"Command not allowed: ",
                                                ExpectedToken(c[1])>>))
                   ELSE PassedOn(t, u)]_vars
    /\ []InnerNeverInvoked

C37_Witness ==
    \E i \in Tasks :
        LET t == tasks[i]
        IN  /\ t.pc = "done" /\ t.ret = "Ok"
            /\ Command(t.session) = Some(<<114, 109>>)
            /\ ExitCode(t.session) = Some(1)
            /\ Len(t.calls) = 1 /\ t.calls[1].ev = "shortOk"
            /\ t.wire = <<ExtendedData(1, <<"Command not allowed: ", <<114, 109>>>>),
                         ExitStatus(1), Eof, Close>>

\* C38: active_term, called with a session that is not of kind Pty,
\* returns Ok without running Next, having written "PTY required" to
\* stderr, stored exit code 1 and sent exit-status 1, end-of-file and
\* close; with a Pty session it runs Next with the session as it is.
C38_ActiveTermGate ==
    [][\A i \in Tasks :
         GateStep(i, "active_term") =>
            LET t == tasks[i]
                u == tasks'[i]
            IN  IF t.session.kind.tag # "Pty"
                THEN /\ TurnedAway(t, u)
                     /\ u.session = [t.session EXCEPT !.exit_code = Some(1)]
                     /\ u.wire = t.wire \o <<ExtendedData(1, PtyRequired),
                                             ExitStatus(1), Eof, Close>>
                     /\ \A q \in 1..Len(u.calls) : u.calls[q].ev # "H"
                ELSE PassedOn(t, u)]_vars

C38_Witness ==
    \E i \in Tasks :
        LET t == tasks[i]
            ms == ChainLayers(app[1])
        IN  /\ Len(ms) = 1 /\ ms[1].kind = "active_term"
            /\ t.session.kind.tag = "Subsystem"
            /\ t.pc = "return" /\ t.ret = "Ok" /\ t.stack = <<>>
            /\ t.calls = <<Trace("shortOk", ms[1].id)>>
            /\ t.wire = <<ExtendedData(1, PtyRequired), ExitStatus(1), Eof, Close>>

Conversions(t) == {k \in 1..Len(t.hist) : t.hist[k].call = "try_into"}

\* C39: converting a PtySize gives the rectangle at (0, 0) of its width
\* and height when both are at most 65535 and the Int error otherwise,
\* never a wrapped value; and the TUI handler returns Err, with no exit
\* code stored, exactly when a conversion (of the pty size or of a resize)
\* failed, which is then the last thing it did.
C39_RectConversionChecked ==
    \A i \in Tasks :
        LET t == tasks[i]
            failed == {k \in Conversions(t) : IsErr(t.hist[k].ret)}
        IN  /\ \A k \in Conversions(t) :
                  LET z == t.hist[k].arg
                  IN  IF z.width <= 65535 /\ z.height <= 65535
                      THEN t.hist[k].ret =
                              [Ok |-> [x |-> 0, y |-> 0,
                                       width |-> z.width, height |-> z.height]]
                      ELSE t.hist[k].ret = [Err |-> "Int"]
            /\ failed # {} => (/\ failed = {Len(t.hist)}
                               /\ t.pc \in {"return", "done"} /\ t.ret = "Err"
                               /\ ExitCode(t.session) = None)
            /\ t.ret = "Err" => failed # {}

C39_Witness ==
    \E i \in Tasks :
        LET t == tasks[i]
        IN  /\ t.pc = "done" /\ t.ret = "Err" /\ t.logged
            /\ Len(t.hist) = 3
            /\ t.hist[1].call = "try_into" /\ ~IsErr(t.hist[1].ret)
            /\ t.hist[3].call = "try_into" /\ t.hist[3].arg.width = 65616
            /\ IsErr(t.hist[3].ret)
            /\ t.wire = <<Data("frame"), Data("frame")>>

\* C40: an SFTP handle is in the table exactly from the open or opendir that
\* returned it until a close names it; once a close of it was answered Ok,
\* every read, write, readdir and close of it is answered Failure; and no open
\* or opendir returns a handle that was returned before.
Issued(log) == {log.issued[k] : k \in 1..Len(log.issued)}

C40_HandleValidUntilClose ==
    [][LET r == sftpLog'.last IN
        /\ DOMAIN sftp'.handles = Issued(sftpLog') \ sftpLog'.closing
        /\ (r.op \in {"read", "write", "readdir", "close"} /\ r.handle \in sftpLog.closed)
              => r.reply = "Failure"
        /\ r.reply = "Handle" => r.handle \notin Issued(sftpLog)]_vars

C40_Witness ==
    /\ sftpLog.last.op \in {"read", "readdir"}
    /\ sftpLog.last.handle \in sftpLog.closed
    /\ sftpLog.last.reply = "Failure"
    /\ Len(sftpLog.issued) = 2
    /\ sftpLog.issued[2] \in DOMAIN sftp.handles

=============================================================================
